---- MODULE Spec2Model ----
(***************************************************************************)
(* Beliaar/Strategy: a turn-based tactical game on a hexagonal grid.       *)
(*                                                                         *)
(* The module models                                                       *)
(*   - the combat rules of src/src/components/unit.rs (Unit::attack,       *)
(*     Unit::can_move),                                                    *)
(*   - the session state machine of src/src/nodes/gameworld.rs (_process,  *)
(*     hex_left_clicked, hex_right_clicked, hex_mouse_entered,             *)
(*     hex_mouse_exited, on_new_round, move_entity_to_hexagon,             *)
(*     handle_attack_result) and the guarded access of src/src/systems.rs  *)
(*     (with_game_state).                                                  *)
(*                                                                         *)
(* Optional values (Option<T>, a component an entity may lack) are         *)
(* sequences of length 0 or 1: <<>> is None, <<x>> is Some(x).             *)
(* A hexagon is the pair <<q, r>> of its axial coordinates.                *)
(* Frame deltas are counted in units of 0.05 s, so that                     *)
(* SECONDS_PER_MOVEMENT (0.1 s) is 2.  A value of the f64 clock of a        *)
(* movement is the pair <<n, e>>: the double nearest to n/20 s plus e       *)
(* units of 2^-57 s, so that the rounding of `total_time += delta` and of   *)
(* `total_time -= SECONDS_PER_MOVEMENT` is the rounding of the program.     *)
(***************************************************************************)
EXTENDS Integers, Sequences, FiniteSets, TLC

(***************************************************************************)
(* Bounds of the model.                                                    *)
(***************************************************************************)
\* largest frame delta of a step, in units of 0.05 s
MaxDelta == 3
\* how far below zero remaining_attacks may be driven before the model stops
\* resolving further attacks of that unit
MaxOverdraw == 1
\* how many times on_new_round is called in a run
MaxRounds == 1
\* how far, in units of 2^-57 s, the rounding may take a value of the f64
\* clock from the double nearest to a multiple of 0.05 s
MaxDust == 64
\* largest unit attribute drawn for the combat rules' inputs
MaxStat == 2
\* largest frame delta of the frames that follow a click taken on its own, in
\* units of 0.05 s: enough for three turns of the movement loop in one frame
MaxFrame == 5
\* radius of the field from which the cells of a distance are drawn
MaxRadius == 2
\* how many times on_new_round is called in a game of several rounds: with
\* two players, enough for a player to have the turn a second time
MaxTurns == 2
\* longest time, in units of 0.05 s, that the frames of a paced movement add
\* up to: enough for the three steps of the longest path
MaxElapsed == 8

(***************************************************************************)
(* Program constants.                                                      *)
(***************************************************************************)
\* const SECONDS_PER_MOVEMENT: f64 = 0.1f64, in units of 0.05 s
SECONDS_PER_MOVEMENT == 2
\* state.players.len() after _ready has pushed "Player 1" and "Player 2"
NumPlayers == 2

None == <<>>
Some(x) == <<x>>
IsSome(o) == Len(o) = 1
Get(o) == o[1]

Abs(x) == IF x < 0 THEN -x ELSE x

(***************************************************************************)
(* f64 (IEEE 754 binary64: 53-bit significand, round to nearest, ties to   *)
(* even) on the values that lie within a few units of 2^-57 of a multiple  *)
(* of 0.05.  Written d(n) for the double nearest to n/20, the value        *)
(* <<n, e>> is d(n) + e * 2^-57.                                           *)
(***************************************************************************)
RECURSIVE Pow2(_)
Pow2(k) == IF k = 0 THEN 1 ELSE 2 * Pow2(k - 1)

\* the literal n/20 as an f64: 0.0, 0.05, 0.1, ..
F64(n) == <<n, 0>>

\* the multiples of 0.05 below 1.0
F64Grid == 0..19

\* the spacing of the doubles from d(n) upwards, in units of 2^-57: 2^j for
\* 2^(j-5) <= n/20 < 2^(j-4)
F64Exp ==
    [n \in F64Grid |->
        IF n = 0 THEN 0
        ELSE CHOOSE j \in 0..4 :
                5 * Pow2(j) <= 8 * n /\ 8 * n < 5 * Pow2(j + 1)]

F64Ulp == [n \in F64Grid |-> Pow2(F64Exp[n])]

\* d(n) is itself a power of two (0.25, 0.5): the doubles below it lie twice
\* as close as those above
F64IsPow2 == [n \in F64Grid |-> n > 0 /\ 5 * F64Ulp[n] = 8 * n]

\* 5 * significand(d(n)) - n * 2^55 / F64Ulp[n]: the significand is the
\* integer nearest to a fifth of n * 2^55 / F64Ulp[n] = n * 2^(55 - j), whose
\* remainder modulo 5 follows from 2^4 = 1 (mod 5)
F64Rho ==
    [n \in F64Grid |->
        LET m5 == (n * <<1, 2, 4, 3>>[((55 - F64Exp[n]) % 4) + 1]) % 5
        IN  IF m5 <= 2 THEN -m5 ELSE 5 - m5]

\* 5 * (d(n) - n/20), in units of 2^-57
F64Err == [n \in F64Grid |-> IF n = 0 THEN 0 ELSE F64Ulp[n] * F64Rho[n]]

\* the significand of d(n) is odd (n * 2^(55 - j) is even, so a fifth of
\* n * 2^(55 - j) + rho has the parity of rho)
F64Odd == [n \in F64Grid |-> n > 0 /\ ~F64IsPow2[n] /\ F64Rho[n] % 2 = 1]

\* the double nearest to d(n) + s * 2^-57, ties to the even significand;
\* near zero every multiple of 2^-57 is a double
f64_round(n, s) ==
    IF n = 0
    THEN <<0, s>>
    ELSE LET D == IF s < 0 /\ F64IsPow2[n] THEN F64Ulp[n] \div 2
                                           ELSE F64Ulp[n]
             q == Abs(s) \div D
             r == Abs(s) % D
             odd == (q % 2 = 1) # F64Odd[n]
             k == IF 2 * r > D \/ (2 * r = D /\ odd) THEN q + 1 ELSE q
         IN  <<n, IF s < 0 THEN -(k * D) ELSE k * D>>

\* the f64 values of the model: those within MaxDust units of 2^-57 of a
\* multiple of 0.05
F64Values == F64Grid \X (-MaxDust..MaxDust)

\* a + b of two f64 values
f64_add ==
    [a \in F64Values, b \in F64Values |->
        LET n == a[1] + b[1]
        IN  f64_round(n, (F64Err[a[1]] + F64Err[b[1]] - F64Err[n]) \div 5
                            + a[2] + b[2])]

\* a - b of two f64 values, a >= b
f64_sub ==
    [a \in F64Values, b \in F64Values |->
        LET n == a[1] - b[1]
        IN  f64_round(n, (F64Err[a[1]] - F64Err[b[1]] - F64Err[n]) \div 5
                            + a[2] - b[2])]

\* a > b of two f64 values
f64_gt ==
    [a \in F64Values, b \in F64Values |->
        a[1] > b[1] \/ (a[1] = b[1] /\ a[2] > b[2])]

(***************************************************************************)
(* Hex coordinate model (spec 4.1; components/hexagon.rs is not among the  *)
(* sources).                                                               *)
(***************************************************************************)
\* distance_to without the absolute value of the q difference
distance_to_signed(a, b) ==
    ((a[1] - b[1]) + Abs(a[2] - b[2]) + Abs((a[1] + a[2]) - (b[1] + b[2]))) \div 2

distance_to(a, b) ==
    (Abs(a[1] - b[1]) + Abs(a[2] - b[2]) + Abs((a[1] + a[2]) - (b[1] + b[2]))) \div 2

is_neighbour(a, b) == distance_to(a, b) = 1

generate_field(radius) ==
    { h \in (-radius..radius) \X (-radius..radius) : Abs(h[1] + h[2]) <= radius }

\* the field of the deployment: the origin and the six cells around it
Field == generate_field(1)

(***************************************************************************)
(* Combat rules: src/src/components/unit.rs                                *)
(***************************************************************************)
\* Unit::new
Unit(integrity, damage, armor, mobility, remaining_range, remaining_attacks) ==
    [integrity |-> integrity, damage |-> damage, armor |-> armor,
     mobility |-> mobility, remaining_range |-> remaining_range,
     remaining_attacks |-> remaining_attacks]

\* attack with the attacker's mobility carried through
attack_keeps_mobility(self, defender) ==
    LET actual_damage == self.damage - defender.armor
    IN  [ok |-> TRUE, error |-> "", actual_damage |-> actual_damage,
         attacker |-> [self EXCEPT !.remaining_attacks = @ - 1],
         defender |-> [defender EXCEPT !.integrity = @ - actual_damage]]

\* attack with the damage clamped at zero
attack_clamped(self, defender) ==
    LET actual_damage == IF self.damage > defender.armor
                         THEN self.damage - defender.armor ELSE 0
    IN  [ok |-> TRUE, error |-> "", actual_damage |-> actual_damage,
         attacker |-> [self EXCEPT !.mobility = 0,
                                   !.remaining_attacks = @ - 1],
         defender |-> [defender EXCEPT !.integrity = @ - actual_damage]]

\* attack that takes the attacker's remaining range as well
attack_ends_movement(self, defender) ==
    LET actual_damage == self.damage - defender.armor
    IN  [ok |-> TRUE, error |-> "", actual_damage |-> actual_damage,
         attacker |-> [self EXCEPT !.mobility = 0,
                                   !.remaining_range = 0,
                                   !.remaining_attacks = @ - 1],
         defender |-> [defender EXCEPT !.integrity = @ - actual_damage]]

\* Unit::attack: Result<AttackResult, AttackError>.  The function has one
\* return, Ok(AttackResult {..}); ok is FALSE for Err(error).
attack(self, defender) ==
    LET actual_damage == self.damage - defender.armor
    IN  [ok |-> TRUE, error |-> "", actual_damage |-> actual_damage,
         attacker |-> [self EXCEPT !.mobility = 0,
                                   !.remaining_attacks = @ - 1],
         defender |-> [defender EXCEPT !.integrity = @ - actual_damage]]

\* can_move with a strict comparison
can_move_strict(self, distance) ==
    IF self.remaining_range > distance
    THEN [yes |-> TRUE, remaining_range |-> self.remaining_range - distance]
    ELSE [yes |-> FALSE, remaining_range |-> 0]

\* can_move that charges one cell more than the distance
can_move_overcharged(self, distance) ==
    IF self.remaining_range >= distance
    THEN [yes |-> TRUE, remaining_range |-> self.remaining_range - distance - 1]
    ELSE [yes |-> FALSE, remaining_range |-> 0]

\* Unit::can_move: CanMove::Yes(remaining) | CanMove::No
can_move(self, distance) ==
    IF self.remaining_range >= distance
    THEN [yes |-> TRUE, remaining_range |-> self.remaining_range - distance]
    ELSE [yes |-> FALSE, remaining_range |-> 0]

(***************************************************************************)
(* The entity store (legion World) as the session uses it: every entity id *)
(* maps to a record that says whether the entity is in the world, and its  *)
(* optional Unit, Hexagon and PlayerComponent.                             *)
(***************************************************************************)
Entities == 1..4

NoEntity == [present |-> FALSE, unit |-> None, hexagon |-> None, player |-> None]

\* world.extend(vec![(PlayerComponent(p), Hexagon, NodeTemplate, Unit)])
Spawn(player, hexagon, unit) ==
    [present |-> TRUE, unit |-> Some(unit), hexagon |-> Some(hexagon),
     player |-> Some(player)]

\* world.contains(entity) / world.entry(entity).is_some()
contains(w, e) == w[e].present

\* world.remove(entity)
remove(w, e) == [w EXCEPT ![e] = NoEntity]

\* handle_attack_result removing the defender only below zero
handle_attack_result_below_zero(w, attacker, defender, result) ==
    LET w1 == IF contains(w, attacker)
              THEN [w EXCEPT ![attacker].unit = Some(result.attacker)]
              ELSE w
    IN  IF contains(w1, defender)
        THEN IF result.defender.integrity < 0
             THEN remove(w1, defender)
             ELSE [w1 EXCEPT ![defender].unit = Some(result.defender)]
        ELSE w1

\* handle_attack_result that forgets to commit the attacker
handle_attack_result_no_attacker(w, attacker, defender, result) ==
    IF contains(w, defender)
    THEN IF result.defender.integrity <= 0
         THEN remove(w, defender)
         ELSE [w EXCEPT ![defender].unit = Some(result.defender)]
    ELSE w

\* GameWorld::handle_attack_result
handle_attack_result(w, attacker, defender, result) ==
    LET w1 == IF contains(w, attacker)
              THEN [w EXCEPT ![attacker].unit = Some(result.attacker)]
              ELSE w
    IN  IF contains(w1, defender)
        THEN IF result.defender.integrity <= 0
             THEN remove(w1, defender)
             ELSE [w1 EXCEPT ![defender].unit = Some(result.defender)]
        ELSE w1


(***************************************************************************)
(* Pathfinder (spec 4.2; systems/hexgrid.rs is not among the sources).     *)
(* Breadth-first search from `from` over the cells of the field that are   *)
(* not held by a unit-bearing entity, the destination exempt.  Ties        *)
(* between equally short routes are left open: find_path is the set of     *)
(* the results the search may return.                                      *)
(***************************************************************************)
Neighbours(c) == { n \in Field : is_neighbour(c, n) }

Occupied(w) ==
    { Get(w[e].hexagon) : e \in { x \in Entities :
          w[x].present /\ IsSome(w[x].unit) /\ IsSome(w[x].hexagon) } }

RECURSIVE bfs_layers(_, _, _, _)
\* the sequence of the search's layers, the last one holding `to` if reachable
bfs_layers(layers, seen, to, w) ==
    LET frontier == layers[Len(layers)]
        next == { n \in UNION { Neighbours(c) : c \in frontier } :
                    n \notin seen /\ (n = to \/ n \notin Occupied(w)) }
    IN  IF to \in frontier \/ next = {}
        THEN layers
        ELSE bfs_layers(Append(layers, next), seen \cup next, to, w)

RECURSIVE paths_to(_, _, _)
\* the routes from the first layer's cell (excluded) to cell c of layer k
paths_to(layers, k, c) ==
    IF k = 1
    THEN { <<>> }
    ELSE UNION { { Append(p, c) : p \in paths_to(layers, k - 1, n) } :
                 n \in { m \in layers[k - 1] : is_neighbour(m, c) } }

find_path(from, to, w) ==
    IF from = to
    THEN { <<>> }
    ELSE LET layers == bfs_layers(<< {from} >>, {from}, to, w)
         IN  IF to \in layers[Len(layers)]
             THEN paths_to(layers, Len(layers), to)
             ELSE { <<>> }

(***************************************************************************)
(* Session: game_state::GameState {world, state, current_player,           *)
(* current_path, players} and game_state::State.                           *)
(***************************************************************************)
Waiting == [tag |-> "Waiting", entity |-> 0, defender |-> 0, path |-> <<>>,
            total_time |-> F64(0)]
Selected(entity) == [tag |-> "Selected", entity |-> entity, defender |-> 0,
                     path |-> <<>>, total_time |-> F64(0)]
Moving(entity, path, total_time) ==
    [tag |-> "Moving", entity |-> entity, defender |-> 0, path |-> path,
     total_time |-> total_time]
Attacking(attacker, defender) ==
    [tag |-> "Attacking", entity |-> attacker, defender |-> defender,
     path |-> <<>>, total_time |-> F64(0)]

\* set_state without `state.current_path = Vec::new()`
set_state_keeps_path(gs, game_state) == [gs EXCEPT !.state = game_state]

\* GameWorld::set_state
set_state(gs, game_state) ==
    [gs EXCEPT !.state = game_state, !.current_path = <<>>]

\* what a handler's closure leaves behind: the session, and whether it panicked
Ret(gs) == [gs |-> gs, panic |-> FALSE]
Panic(gs) == [gs |-> gs, panic |-> TRUE]

\* GameWorld::get_player_of_entity
get_player_of_entity(entry) == entry.player

RECURSIVE SetToSeq(_)
SetToSeq(S) ==
    IF S = {} THEN <<>>
    ELSE LET m == CHOOSE x \in S : \A y \in S : x <= y
         IN  <<m>> \o SetToSeq(S \ {m})

\* get_entities_at_hexagon: the entities whose Hexagon equals the given one
get_entities_at_hexagon(hexagon, w) ==
    SetToSeq({ e \in Entities : w[e].present /\ w[e].hexagon = Some(hexagon) })

\* move_entity_to_hexagon with the range left as it was
move_entity_to_hexagon_free(entity, hexagon, w) ==
    IF ~contains(w, entity)
    THEN w
    ELSE LET selected_unit == Get(w[entity].unit)
             selected_hexagon == Get(w[entity].hexagon)
             distance == distance_to(selected_hexagon, hexagon)
             cm == can_move(selected_unit, distance)
         IN  IF cm.yes
             THEN [w EXCEPT ![entity].hexagon = Some(hexagon)]
             ELSE w

\* GameWorld::move_entity_to_hexagon (is_in_movement_range is Unit::can_move)
move_entity_to_hexagon(entity, hexagon, w) ==
    IF ~contains(w, entity)
    THEN w
    ELSE LET selected_unit == Get(w[entity].unit)
             selected_hexagon == Get(w[entity].hexagon)
             distance == distance_to(selected_hexagon, hexagon)
             cm == can_move(selected_unit, distance)
         IN  IF cm.yes
             THEN [w EXCEPT ![entity].unit =
                               Some([selected_unit EXCEPT
                                       !.remaining_range = cm.remaining_range]),
                            ![entity].hexagon = Some(hexagon)]
             ELSE w


(***************************************************************************)
(* GameWorld::_process, the closure handed to with_game_state.             *)
(***************************************************************************)
RECURSIVE move_loop_keeps_time(_, _, _, _, _)
\* the loop of State::Moving without `total_time -= SECONDS_PER_MOVEMENT`
move_loop_keeps_time(gs, entity, path, total_time, moved) ==
    IF f64_gt[total_time, F64(SECONDS_PER_MOVEMENT)]
    THEN IF ~contains(gs.world, entity)
         THEN [gs |-> set_state(gs, Waiting), moved |-> moved]
         ELSE IF ~IsSome(gs.world[entity].unit)
         THEN [gs |-> set_state(gs, Waiting), moved |-> moved]
         ELSE IF Get(gs.world[entity].unit).remaining_range <= 0
         THEN [gs |-> set_state(gs, Selected(entity)), moved |-> moved]
         ELSE IF ~IsSome(gs.world[entity].hexagon)
         THEN [gs |-> set_state(gs, Waiting), moved |-> moved]
         ELSE IF path = <<>>
         THEN [gs |-> set_state(gs, Selected(entity)), moved |-> moved]
         ELSE IF ~is_neighbour(Get(gs.world[entity].hexagon), Head(path))
         THEN [gs |-> set_state(gs, Selected(entity)), moved |-> moved]
         ELSE move_loop_keeps_time(
                [gs EXCEPT !.world =
                    move_entity_to_hexagon(entity, Head(path), gs.world)],
                entity, Tail(path), total_time, moved + 1)
    ELSE IF path # <<>>
         THEN [gs |-> set_state(gs, Moving(entity, path, total_time)),
               moved |-> moved]
         ELSE [gs |-> set_state(gs, Selected(entity)), moved |-> moved]

RECURSIVE move_loop_no_adjacency(_, _, _, _, _)
\* the loop of State::Moving without the is_neighbour test
move_loop_no_adjacency(gs, entity, path, total_time, moved) ==
    IF f64_gt[total_time, F64(SECONDS_PER_MOVEMENT)]
    THEN IF ~contains(gs.world, entity)
         THEN [gs |-> set_state(gs, Waiting), moved |-> moved]
         ELSE IF ~IsSome(gs.world[entity].unit)
         THEN [gs |-> set_state(gs, Waiting), moved |-> moved]
         ELSE IF Get(gs.world[entity].unit).remaining_range <= 0
         THEN [gs |-> set_state(gs, Selected(entity)), moved |-> moved]
         ELSE IF ~IsSome(gs.world[entity].hexagon)
         THEN [gs |-> set_state(gs, Waiting), moved |-> moved]
         ELSE IF path = <<>>
         THEN [gs |-> set_state(gs, Selected(entity)), moved |-> moved]
         ELSE move_loop_no_adjacency(
                [gs EXCEPT !.world =
                    move_entity_to_hexagon(entity, Head(path), gs.world)],
                entity, Tail(path),
                f64_sub[total_time, F64(SECONDS_PER_MOVEMENT)], moved + 1)
    ELSE IF path # <<>>
         THEN [gs |-> set_state(gs, Moving(entity, path, total_time)),
               moved |-> moved]
         ELSE [gs |-> set_state(gs, Selected(entity)), moved |-> moved]

RECURSIVE move_loop_waits_for_range(_, _, _, _, _)
\* the loop of State::Moving that keeps the movement pending when the range
\* is used up
move_loop_waits_for_range(gs, entity, path, total_time, moved) ==
    IF f64_gt[total_time, F64(SECONDS_PER_MOVEMENT)]
    THEN IF ~contains(gs.world, entity)
         THEN [gs |-> set_state(gs, Waiting), moved |-> moved]
         ELSE IF ~IsSome(gs.world[entity].unit)
         THEN [gs |-> set_state(gs, Waiting), moved |-> moved]
         ELSE IF Get(gs.world[entity].unit).remaining_range <= 0
         THEN [gs |-> set_state(gs, Moving(entity, path,
                                        F64(SECONDS_PER_MOVEMENT))),
               moved |-> moved]
         ELSE IF ~IsSome(gs.world[entity].hexagon)
         THEN [gs |-> set_state(gs, Waiting), moved |-> moved]
         ELSE IF path = <<>>
         THEN [gs |-> set_state(gs, Selected(entity)), moved |-> moved]
         ELSE IF ~is_neighbour(Get(gs.world[entity].hexagon), Head(path))
         THEN [gs |-> set_state(gs, Selected(entity)), moved |-> moved]
         ELSE move_loop_waits_for_range(
                [gs EXCEPT !.world =
                    move_entity_to_hexagon(entity, Head(path), gs.world)],
                entity, Tail(path),
                f64_sub[total_time, F64(SECONDS_PER_MOVEMENT)], moved + 1)
    ELSE IF path # <<>>
         THEN [gs |-> set_state(gs, Moving(entity, path, total_time)),
               moved |-> moved]
         ELSE [gs |-> set_state(gs, Selected(entity)), moved |-> moved]

RECURSIVE move_loop(_, _, _, _, _)
\* the `while total_time > SECONDS_PER_MOVEMENT` loop of State::Moving and the
\* set_state that follows it; moved counts the path cells applied
move_loop(gs, entity, path, total_time, moved) ==
    IF f64_gt[total_time, F64(SECONDS_PER_MOVEMENT)]
    THEN IF ~contains(gs.world, entity)
         THEN [gs |-> set_state(gs, Waiting), moved |-> moved]
         ELSE IF ~IsSome(gs.world[entity].unit)
         THEN [gs |-> set_state(gs, Waiting), moved |-> moved]
         ELSE IF Get(gs.world[entity].unit).remaining_range <= 0
         THEN [gs |-> set_state(gs, Selected(entity)), moved |-> moved]
         ELSE IF ~IsSome(gs.world[entity].hexagon)
         THEN [gs |-> set_state(gs, Waiting), moved |-> moved]
         ELSE IF path = <<>>
         THEN [gs |-> set_state(gs, Selected(entity)), moved |-> moved]
         ELSE IF ~is_neighbour(Get(gs.world[entity].hexagon), Head(path))
         THEN [gs |-> set_state(gs, Selected(entity)), moved |-> moved]
         ELSE move_loop(
                [gs EXCEPT !.world =
                    move_entity_to_hexagon(entity, Head(path), gs.world)],
                entity, Tail(path),
                f64_sub[total_time, F64(SECONDS_PER_MOVEMENT)], moved + 1)
    ELSE IF path # <<>>
         THEN [gs |-> set_state(gs, Moving(entity, path, total_time)),
               moved |-> moved]
         ELSE [gs |-> set_state(gs, Selected(entity)), moved |-> moved]

\* State::Attacking that selects the defender once the attack is resolved
process_attacking_selects(gs, attacker_entity, defender_entity) ==
    IF ~contains(gs.world, attacker_entity)
    THEN set_state(gs, Waiting)
    ELSE IF ~IsSome(gs.world[attacker_entity].unit)
    THEN set_state(gs, Waiting)
    ELSE IF ~contains(gs.world, defender_entity)
    THEN set_state(gs, Waiting)
    ELSE IF ~IsSome(gs.world[defender_entity].unit)
    THEN set_state(gs, Waiting)
    ELSE LET attacking_unit == Get(gs.world[attacker_entity].unit)
             defending_unit == Get(gs.world[defender_entity].unit)
             result == attack(attacking_unit, defending_unit)
         IN  IF result.ok
             THEN set_state(
                    [gs EXCEPT !.world = handle_attack_result(
                        gs.world, attacker_entity, defender_entity, result)],
                    Selected(defender_entity))
             ELSE set_state(gs, Waiting)

\* State::Attacking(attacker_entity, defender_entity)
process_attacking(gs, attacker_entity, defender_entity) ==
    IF ~contains(gs.world, attacker_entity)
    THEN set_state(gs, Waiting)
    ELSE IF ~IsSome(gs.world[attacker_entity].unit)
    THEN set_state(gs, Waiting)
    ELSE IF ~contains(gs.world, defender_entity)
    THEN set_state(gs, Waiting)
    ELSE IF ~IsSome(gs.world[defender_entity].unit)
    THEN set_state(gs, Waiting)
    ELSE LET attacking_unit == Get(gs.world[attacker_entity].unit)
             defending_unit == Get(gs.world[defender_entity].unit)
             result == attack(attacking_unit, defending_unit)
         IN  IF result.ok
             THEN set_state(
                    [gs EXCEPT !.world = handle_attack_result(
                        gs.world, attacker_entity, defender_entity, result)],
                    Waiting)
             ELSE set_state(gs, Waiting)

\* _process with State::Attacking left as it is
process_keeps_attacking(gs, delta) ==
    CASE gs.state.tag = "Attacking" -> Ret(gs)
      [] gs.state.tag = "Moving" ->
            Ret(move_loop(gs, gs.state.entity, gs.state.path,
                          f64_add[gs.state.total_time, F64(delta)], 0).gs)
      [] OTHER -> Ret(gs)

\* _process whose default arm drops the selection
process_deselects(gs, delta) ==
    CASE gs.state.tag = "Attacking" ->
            Ret(process_attacking(gs, gs.state.entity, gs.state.defender))
      [] gs.state.tag = "Moving" ->
            Ret(move_loop(gs, gs.state.entity, gs.state.path,
                          f64_add[gs.state.total_time, F64(delta)], 0).gs)
      [] OTHER -> Ret(set_state(gs, Waiting))

\* with_game_state(|state| match &state.state.clone() { .. }) of _process
process(gs, delta) ==
    CASE gs.state.tag = "Attacking" ->
            Ret(process_attacking(gs, gs.state.entity, gs.state.defender))
      [] gs.state.tag = "Moving" ->
            Ret(move_loop(gs, gs.state.entity, gs.state.path,
                          f64_add[gs.state.total_time, F64(delta)], 0).gs)
      [] OTHER -> Ret(gs)

(***************************************************************************)
(* GameWorld::on_new_round                                                 *)
(***************************************************************************)
\* on_new_round that adds the mobility to the range that is left
on_new_round_adds_range(gs) ==
    LET w == [e \in Entities |->
                IF gs.world[e].present /\ IsSome(gs.world[e].unit)
                THEN LET unit == Get(gs.world[e].unit)
                     IN  [gs.world[e] EXCEPT !.unit =
                            Some([unit EXCEPT
                                    !.remaining_attacks = 1,
                                    !.remaining_range =
                                        unit.remaining_range + unit.mobility])]
                ELSE gs.world[e]]
        next_player == IF ~IsSome(gs.current_player) THEN 0
                       ELSE IF Get(gs.current_player) + 1 >= NumPlayers THEN 0
                       ELSE Get(gs.current_player) + 1
    IN  Ret(set_state([gs EXCEPT !.world = w,
                                 !.current_player = Some(next_player)],
                      Waiting))

\* on_new_round that leaves remaining_attacks alone
on_new_round_no_attacks(gs) ==
    LET w == [e \in Entities |->
                IF gs.world[e].present /\ IsSome(gs.world[e].unit)
                THEN LET unit == Get(gs.world[e].unit)
                     IN  [gs.world[e] EXCEPT !.unit =
                            Some([unit EXCEPT !.remaining_range = unit.mobility])]
                ELSE gs.world[e]]
        next_player == IF ~IsSome(gs.current_player) THEN 0
                       ELSE IF Get(gs.current_player) + 1 >= NumPlayers THEN 0
                       ELSE Get(gs.current_player) + 1
    IN  Ret(set_state([gs EXCEPT !.world = w,
                                 !.current_player = Some(next_player)],
                      Waiting))

\* on_new_round that leaves the session state as it finds it
on_new_round_keeps_state(gs) ==
    LET w == [e \in Entities |->
                IF gs.world[e].present /\ IsSome(gs.world[e].unit)
                THEN LET unit == Get(gs.world[e].unit)
                     IN  [gs.world[e] EXCEPT !.unit =
                            Some([unit EXCEPT !.remaining_attacks = 1,
                                              !.remaining_range = unit.mobility])]
                ELSE gs.world[e]]
        next_player == IF ~IsSome(gs.current_player) THEN 0
                       ELSE IF Get(gs.current_player) + 1 >= NumPlayers THEN 0
                       ELSE Get(gs.current_player) + 1
    IN  Ret([gs EXCEPT !.world = w,
                       !.current_player = Some(next_player),
                       !.current_path = <<>>])

on_new_round(gs) ==
    LET w == [e \in Entities |->
                IF gs.world[e].present /\ IsSome(gs.world[e].unit)
                THEN LET unit == Get(gs.world[e].unit)
                     IN  [gs.world[e] EXCEPT !.unit =
                            Some([unit EXCEPT !.remaining_attacks = 1,
                                              !.remaining_range = unit.mobility])]
                ELSE gs.world[e]]
        next_player == IF ~IsSome(gs.current_player) THEN 0
                       ELSE IF Get(gs.current_player) + 1 >= NumPlayers THEN 0
                       ELSE Get(gs.current_player) + 1
    IN  Ret(set_state([gs EXCEPT !.world = w,
                                 !.current_player = Some(next_player)],
                      Waiting))

(***************************************************************************)
(* GameWorld::hex_right_clicked, hex_mouse_exited, hex_mouse_entered       *)
(***************************************************************************)
\* a right click that leaves the hover path as it is
hex_right_clicked_keeps_path(gs) == Ret([gs EXCEPT !.state = Waiting])

hex_right_clicked(gs) == Ret(set_state(gs, Waiting))

hex_mouse_exited(gs) == Ret([gs EXCEPT !.current_path = <<>>])

\* the hexagon find_path starts from when the selected entity has one
selected_hexagon_of(gs) ==
    IF gs.state.tag = "Selected" /\ contains(gs.world, gs.state.entity)
    THEN gs.world[gs.state.entity].hexagon
    ELSE None

\* hex_mouse_entered that clears the preview through set_state
hex_mouse_entered_resets(gs, mouse_hexagon, path) ==
    IF gs.state.tag # "Selected"
    THEN Ret(set_state(gs, Waiting))
    ELSE LET selected_entity == gs.state.entity
         IN  IF ~contains(gs.world, selected_entity) THEN Ret(gs)
             ELSE IF ~IsSome(gs.current_player) THEN Ret(gs)
             ELSE IF ~IsSome(get_player_of_entity(gs.world[selected_entity]))
             THEN Ret(gs)
             ELSE IF Get(gs.current_player) #
                     Get(get_player_of_entity(gs.world[selected_entity]))
             THEN Ret(gs)
             ELSE IF ~IsSome(gs.world[selected_entity].hexagon) THEN Ret(gs)
             ELSE Ret([gs EXCEPT !.current_path = path])

\* path is the result of find_path(&selected_hexagon, &mouse_hexagon, &world)
hex_mouse_entered(gs, mouse_hexagon, path) ==
    IF gs.state.tag # "Selected"
    THEN Ret([gs EXCEPT !.current_path = <<>>])
    ELSE LET selected_entity == gs.state.entity
         IN  IF ~contains(gs.world, selected_entity) THEN Ret(gs)
             ELSE IF ~IsSome(gs.current_player) THEN Ret(gs)
             ELSE IF ~IsSome(get_player_of_entity(gs.world[selected_entity]))
             THEN Ret(gs)
             ELSE IF Get(gs.current_player) #
                     Get(get_player_of_entity(gs.world[selected_entity]))
             THEN Ret(gs)
             ELSE IF ~IsSome(gs.world[selected_entity].hexagon) THEN Ret(gs)
             ELSE Ret([gs EXCEPT !.current_path = path])


(***************************************************************************)
(* GameWorld::hex_left_clicked.  is_visible is the answer of               *)
(* HexGrid::is_hexagon_visible_for_attack (the render collaborator), path  *)
(* the result of find_path from the selected entity's hexagon.             *)
(***************************************************************************)
\* the body of `for entity in entities_at_hexagon` that takes the clicked
\* entity for one without Unit
click_entity_ignores_unit(gs, entity, possible_states, is_visible, path) ==
    LET pushed == Append(possible_states, Selected(entity))
        selected_entity == gs.state.entity
    IN  IF gs.state.tag # "Selected"
        THEN [kind |-> "next", possible_states |-> pushed]
        ELSE IF ~contains(gs.world, selected_entity)
        THEN [kind |-> "next", possible_states |-> pushed]
        ELSE IF selected_entity = entity
        THEN [kind |-> "next", possible_states |-> pushed]
        ELSE LET selected_player == get_player_of_entity(gs.world[selected_entity])
             IN  IF ~IsSome(gs.current_player)
                 THEN [kind |-> "panic", possible_states |-> pushed]
                 ELSE IF ~IsSome(selected_player)
                 THEN [kind |-> "panic", possible_states |-> pushed]
                 ELSE IF Get(gs.current_player) # Get(selected_player)
                 THEN [kind |-> "return", possible_states |-> pushed]
                 ELSE IF ~IsSome(gs.world[selected_entity].hexagon)
                 THEN [kind |-> "panic", possible_states |-> pushed]
                 ELSE [kind |-> "next",
                       possible_states |->
                          IF path = <<>>
                          THEN pushed
                          ELSE Append(pushed, Moving(selected_entity, path, F64(0)))]

\* the body of `for entity in entities_at_hexagon` for one entity:
\* kind is "next" (go on with possible_states), "return" or "panic"
click_entity(gs, entity, possible_states, is_visible, path) ==
    LET pushed == Append(possible_states, Selected(entity))
        selected_entity == gs.state.entity
    IN  IF gs.state.tag # "Selected"
        THEN [kind |-> "next", possible_states |-> pushed]
        ELSE IF ~contains(gs.world, selected_entity)
        THEN [kind |-> "next", possible_states |-> pushed]
        ELSE IF selected_entity = entity
        THEN [kind |-> "next", possible_states |-> pushed]
        ELSE LET clicked_unit == gs.world[entity].unit
                 selected_player == get_player_of_entity(gs.world[selected_entity])
             IN  IF ~IsSome(gs.current_player)
                 THEN [kind |-> "panic", possible_states |-> pushed]
                 ELSE IF ~IsSome(selected_player)
                 THEN [kind |-> "panic", possible_states |-> pushed]
                 ELSE IF Get(gs.current_player) # Get(selected_player)
                 THEN [kind |-> "return", possible_states |-> pushed]
                 ELSE IF IsSome(clicked_unit)
                 THEN [kind |-> "next",
                       possible_states |->
                          IF is_visible
                          THEN Append(pushed, Attacking(selected_entity, entity))
                          ELSE pushed]
                 ELSE IF ~IsSome(gs.world[selected_entity].hexagon)
                 THEN [kind |-> "panic", possible_states |-> pushed]
                 ELSE [kind |-> "next",
                       possible_states |->
                          IF path = <<>>
                          THEN pushed
                          ELSE Append(pushed, Moving(selected_entity, path, F64(0)))]

RECURSIVE click_entities(_, _, _, _, _)
click_entities(gs, entities, possible_states, is_visible, path) ==
    IF entities = <<>>
    THEN [kind |-> "next", possible_states |-> possible_states]
    ELSE LET r == click_entity(gs, Head(entities), possible_states,
                               is_visible, path)
         IN  IF r.kind = "next"
             THEN click_entities(gs, Tail(entities), r.possible_states,
                                 is_visible, path)
             ELSE r

\* the branch of hex_left_clicked for a cell without entity that queues the
\* movement whether or not a path was found
click_empty_any_path(gs, path) ==
    IF gs.state.tag # "Selected"
    THEN [kind |-> "next", possible_states |-> <<>>]
    ELSE LET selected_entity == gs.state.entity
         IN  IF ~contains(gs.world, selected_entity)
             THEN [kind |-> "panic", possible_states |-> <<>>]
             ELSE IF ~IsSome(gs.current_player)
             THEN [kind |-> "panic", possible_states |-> <<>>]
             ELSE IF ~IsSome(get_player_of_entity(gs.world[selected_entity]))
             THEN [kind |-> "panic", possible_states |-> <<>>]
             ELSE IF Get(gs.current_player) #
                     Get(get_player_of_entity(gs.world[selected_entity]))
             THEN [kind |-> "return", possible_states |-> <<>>]
             ELSE IF ~IsSome(gs.world[selected_entity].hexagon)
             THEN [kind |-> "panic", possible_states |-> <<>>]
             ELSE [kind |-> "next",
                   possible_states |->
                      << Moving(selected_entity, path, F64(0)) >>]

\* the empty-cell branch with the first cell of the path dropped
click_empty_skips_first(gs, path) ==
    IF gs.state.tag # "Selected"
    THEN [kind |-> "next", possible_states |-> <<>>]
    ELSE LET selected_entity == gs.state.entity
         IN  IF ~contains(gs.world, selected_entity)
             THEN [kind |-> "panic", possible_states |-> <<>>]
             ELSE IF ~IsSome(gs.current_player)
             THEN [kind |-> "panic", possible_states |-> <<>>]
             ELSE IF ~IsSome(get_player_of_entity(gs.world[selected_entity]))
             THEN [kind |-> "panic", possible_states |-> <<>>]
             ELSE IF Get(gs.current_player) #
                     Get(get_player_of_entity(gs.world[selected_entity]))
             THEN [kind |-> "return", possible_states |-> <<>>]
             ELSE IF ~IsSome(gs.world[selected_entity].hexagon)
             THEN [kind |-> "panic", possible_states |-> <<>>]
             ELSE [kind |-> "next",
                   possible_states |->
                      IF path = <<>>
                      THEN <<>>
                      ELSE << Moving(selected_entity, Tail(path), F64(0)) >>]

\* the branch `if entities_at_hexagon.is_empty()`
click_empty(gs, path) ==
    IF gs.state.tag # "Selected"
    THEN [kind |-> "next", possible_states |-> <<>>]
    ELSE LET selected_entity == gs.state.entity
         IN  IF ~contains(gs.world, selected_entity)
             THEN [kind |-> "panic", possible_states |-> <<>>]
             ELSE IF ~IsSome(gs.current_player)
             THEN [kind |-> "panic", possible_states |-> <<>>]
             ELSE IF ~IsSome(get_player_of_entity(gs.world[selected_entity]))
             THEN [kind |-> "panic", possible_states |-> <<>>]
             ELSE IF Get(gs.current_player) #
                     Get(get_player_of_entity(gs.world[selected_entity]))
             THEN [kind |-> "return", possible_states |-> <<>>]
             ELSE IF ~IsSome(gs.world[selected_entity].hexagon)
             THEN [kind |-> "panic", possible_states |-> <<>>]
             ELSE [kind |-> "next",
                   possible_states |->
                      IF path = <<>>
                      THEN <<>>
                      ELSE << Moving(selected_entity, path, F64(0)) >>]

\* a left click that drops the selection when it would select it again
hex_left_clicked_toggles(gs, clicked_hexagon, is_visible, path) ==
    LET entities_at_hexagon == get_entities_at_hexagon(clicked_hexagon, gs.world)
        r == IF entities_at_hexagon = <<>>
             THEN click_empty(gs, path)
             ELSE click_entities(gs, entities_at_hexagon, <<>>, is_visible, path)
    IN  CASE r.kind = "panic" -> Panic(gs)
          [] r.kind = "return" -> Ret(gs)
          [] OTHER ->
               IF r.possible_states # <<>>
                  /\ r.possible_states[Len(r.possible_states)] # gs.state
               THEN Ret(set_state(gs, r.possible_states[Len(r.possible_states)]))
               ELSE Ret(set_state(gs, Waiting))

\* a left click that is ignored while a movement or an attack is pending
hex_left_clicked_keeps_pending(gs, clicked_hexagon, is_visible, path) ==
    LET entities_at_hexagon == get_entities_at_hexagon(clicked_hexagon, gs.world)
        r == IF entities_at_hexagon = <<>>
             THEN click_empty(gs, path)
             ELSE click_entities(gs, entities_at_hexagon, <<>>, is_visible, path)
    IN  CASE r.kind = "panic" -> Panic(gs)
          [] r.kind = "return" -> Ret(gs)
          [] gs.state.tag \in {"Moving", "Attacking"} -> Ret(gs)
          [] OTHER ->
               IF r.possible_states # <<>>
               THEN Ret(set_state(gs, r.possible_states[Len(r.possible_states)]))
               ELSE Ret(set_state(gs, Waiting))

hex_left_clicked(gs, clicked_hexagon, is_visible, path) ==
    LET entities_at_hexagon == get_entities_at_hexagon(clicked_hexagon, gs.world)
        r == IF entities_at_hexagon = <<>>
             THEN click_empty(gs, path)
             ELSE click_entities(gs, entities_at_hexagon, <<>>, is_visible, path)
    IN  CASE r.kind = "panic" -> Panic(gs)
          [] r.kind = "return" -> Ret(gs)
          [] OTHER ->
               IF r.possible_states # <<>>
               THEN Ret(set_state(gs, r.possible_states[Len(r.possible_states)]))
               ELSE Ret(set_state(gs, Waiting))

\* the results find_path may give for a click or a hover on `to`
path_choices(gs, to) ==
    IF IsSome(selected_hexagon_of(gs))
    THEN find_path(Get(selected_hexagon_of(gs)), to, gs.world)
    ELSE { <<>> }


(***************************************************************************)
(* State.                                                                  *)
(*   world, state, current_player, current_path: the GameState behind the  *)
(*       GAMESTATE mutex                                                   *)
(*   poisoned: a closure panicked while it held the mutex, so that every   *)
(*       later try_lock fails                                              *)
(*   rounds: the number of on_new_round calls so far                       *)
(*   skipped: the last call found the mutex held and did nothing          *)
(*   t_*: the inputs and results of the combat rules taken on their own;   *)
(*       t_call: the inputs of a left click taken on its own;              *)
(*       t_elapsed: the time the frames of a movement add up to            *)
(*   event_receiver, node_entity: the fields of GameWorld, the entity      *)
(*       notifications waiting in the channel and the entities whose node  *)
(*       handle is recorded; node_component: the entities that carry a     *)
(*       NodeComponent; node_panic: _process has panicked outside the      *)
(*       session's closure.  Only the frames of the render nodes' own      *)
(*       specification write them.                                         *)
(*   selected_entity: the field of the GameWorld of src/src/gameworld.rs,  *)
(*       written by its click handler only                                 *)
(***************************************************************************)
VARIABLES world, state, current_player, current_path, poisoned, rounds,
          skipped,
          t_pc, t_attacker, t_defender, t_distance, t_result, t_can,
          t_world0, t_world, t_call, t_elapsed,
          event_receiver, node_entity, node_component, node_panic,
          selected_entity

session_vars == <<world, state, current_player, current_path, poisoned,
                  rounds, skipped>>
rules_vars == <<t_pc, t_attacker, t_defender, t_distance, t_result, t_can,
                t_world0, t_world, t_call, t_elapsed>>
node_vars == <<event_receiver, node_entity, node_component, node_panic,
               selected_entity>>
vars == <<world, state, current_player, current_path, poisoned, rounds,
          skipped,
          t_pc, t_attacker, t_defender, t_distance, t_result, t_can,
          t_world0, t_world, t_call, t_elapsed,
          event_receiver, node_entity, node_component, node_panic,
          selected_entity>>

\* the session as the handlers' closures see it
GS == [world |-> world, state |-> state, current_player |-> current_player,
       current_path |-> current_path]

\* the deployment of _ready, scaled to the field: units of both players on
\* opposite sides with their full range and one attack each; unit 1 is the
\* mobile one, units 2 and 3 hold their cells, the fourth entity is not
\* deployed
Deployment ==
    [e \in Entities |->
        CASE e = 1 -> Spawn(0, <<1, 0>>, Unit(2, 1, 2, 2, 2, 1))
          [] e = 2 -> Spawn(0, <<0, 0>>, Unit(1, 2, 1, 0, 0, 1))
          [] e = 3 -> Spawn(1, <<-1, 0>>, Unit(2, 2, 0, 0, 0, 1))
          [] OTHER -> NoEntity]

NoResult == [ok |-> FALSE, error |-> "", actual_damage |-> 0,
             attacker |-> Unit(0, 0, 0, 0, 0, 0),
             defender |-> Unit(0, 0, 0, 0, 0, 0)]
NoCanMove == [yes |-> FALSE, remaining_range |-> 0]
NoWorld == [e \in Entities |-> NoEntity]
NoCall == [state |-> Waiting, clicked_hexagon |-> <<0, 0>>,
           is_visible |-> FALSE, path |-> <<>>, ran |-> FALSE]

\* GameWorld::new: no notification waiting, no handle recorded; no node
\* created yet
NodesIdle ==
    /\ event_receiver = <<>>
    /\ node_entity = {}
    /\ node_component = {}
    /\ node_panic = FALSE
    /\ selected_entity = None

SessionInit ==
    /\ world = Deployment
    /\ state = Waiting
    /\ current_player = Some(0)
    /\ current_path = <<>>
    /\ poisoned = FALSE
    /\ rounds = 0
    /\ skipped = FALSE
    /\ NodesIdle

RulesIdle ==
    /\ t_pc = "idle"
    /\ t_attacker = Unit(0, 0, 0, 0, 0, 0)
    /\ t_defender = Unit(0, 0, 0, 0, 0, 0)
    /\ t_distance = 0
    /\ t_elapsed = <<0, 0>>
    /\ t_result = NoResult
    /\ t_can = NoCanMove
    /\ t_world0 = NoWorld
    /\ t_world = NoWorld
    /\ t_call = NoCall

Init == SessionInit /\ RulesIdle

\* with_game_state that waits for the mutex and then runs the closure
with_game_state_blocking(contended, out) ==
    /\ world' = out.gs.world
    /\ state' = out.gs.state
    /\ current_player' = out.gs.current_player
    /\ current_path' = out.gs.current_path
    /\ poisoned' = out.panic
    /\ skipped' = contended

\* systems::with_game_state: GAMESTATE.try_lock().map(|state| f(state)).
\* contended says that the mutex is held when the call is made; out is what
\* the closure f leaves behind when it runs.
with_game_state(contended, out) ==
    /\ IF contended
       THEN /\ UNCHANGED <<world, state, current_player, current_path, poisoned>>
            /\ skipped' = TRUE
       ELSE /\ world' = out.gs.world
            /\ state' = out.gs.state
            /\ current_player' = out.gs.current_player
            /\ current_path' = out.gs.current_path
            /\ poisoned' = out.panic
            /\ skipped' = FALSE

\* the attacker of a queued attack has not been overdrawn past the bound
WithinOverdraw ==
    state.tag = "Attacking" /\ contains(world, state.entity)
        /\ IsSome(world[state.entity].unit)
    => Get(world[state.entity].unit).remaining_attacks > -MaxOverdraw

\* whether GAMESTATE.try_lock() fails: always once the mutex is poisoned
Contention == IF poisoned THEN {TRUE} ELSE BOOLEAN

\* The inputs of a call.  An input the call does not read is not varied: a
\* call that finds the mutex held reads none, a frame reads delta only in
\* State::Moving, a left click asks for the visibility only in
\* State::Selected, the mouse's cell is read only in State::Selected.
Deltas(contended) ==
    IF contended \/ state.tag # "Moving" THEN {1} ELSE 1..MaxDelta
Cells(contended) == IF contended THEN {<<0, 0>>} ELSE Field
Visibility(contended) ==
    IF contended \/ state.tag # "Selected" THEN {FALSE} ELSE BOOLEAN

\* step(delta): one frame of _process
Step ==
    \E contended \in Contention :
        /\ WithinOverdraw
        /\ \E delta \in Deltas(contended) :
              with_game_state(contended, process(GS, delta))
        /\ UNCHANGED rounds
        /\ UNCHANGED rules_vars
        /\ UNCHANGED node_vars

\* select_or_act(coordinate): a left click on a cell of the field
SelectOrAct ==
    \E contended \in Contention :
        /\ \E clicked_hexagon \in Cells(contended),
              is_visible \in Visibility(contended) :
              \E path \in path_choices(GS, clicked_hexagon) :
                  with_game_state(contended,
                      hex_left_clicked(GS, clicked_hexagon, is_visible, path))
        /\ UNCHANGED rounds
        /\ UNCHANGED rules_vars
        /\ UNCHANGED node_vars

\* hover(coordinate): the mouse enters a cell of the field
Hover ==
    \E contended \in Contention :
        /\ \E mouse_hexagon \in
                 (IF state.tag = "Selected" THEN Cells(contended) ELSE {<<0, 0>>}) :
              \E path \in path_choices(GS, mouse_hexagon) :
                  with_game_state(contended,
                      hex_mouse_entered(GS, mouse_hexagon, path))
        /\ UNCHANGED rounds
        /\ UNCHANGED rules_vars
        /\ UNCHANGED node_vars

\* the mouse leaves a cell
HoverExit ==
    \E contended \in Contention :
        /\ with_game_state(contended, hex_mouse_exited(GS))
        /\ UNCHANGED rounds
        /\ UNCHANGED rules_vars
        /\ UNCHANGED node_vars

\* cancel(): a right click
Cancel ==
    \E contended \in Contention :
        /\ with_game_state(contended, hex_right_clicked(GS))
        /\ UNCHANGED rounds
        /\ UNCHANGED rules_vars
        /\ UNCHANGED node_vars

\* new_round(); rounds counts the calls that went through
NewRound ==
    \E contended \in Contention :
        /\ rounds < MaxRounds
        /\ with_game_state(contended, on_new_round(GS))
        /\ rounds' = IF contended THEN rounds ELSE rounds + 1
        /\ UNCHANGED rules_vars
        /\ UNCHANGED node_vars

Next == Step \/ SelectOrAct \/ Hover \/ HoverExit \/ Cancel \/ NewRound

Spec == Init /\ [][Next]_vars


(***************************************************************************)
(* The combat rules and the commit of an attack result taken on their own, *)
(* the way the unit tests of unit.rs and of nodes/gameworld.rs call them:  *)
(* the inputs are drawn from bounded sets, the actions apply the           *)
(* functions.                                                              *)
(***************************************************************************)
AttackerInputs ==
    { Unit(i, d, a, m, rr, ra) : i \in {1, MaxStat}, d \in 0..MaxStat,
                                 a \in {0, 1}, m \in {0, MaxStat},
                                 rr \in 0..MaxStat, ra \in (-1)..MaxStat }

DefenderInputs ==
    { Unit(i, 1, a, 1, 1, ra) : i \in 1..MaxStat, a \in 0..MaxStat,
                                ra \in {0, 1} }

\* a world of entities that carry a Unit only, as the tests build it: the
\* attacker is entity 1, the defender entity 2, the others are bystanders
TestWorld(present) ==
    [e \in Entities |->
        IF e \in present
        THEN [present |-> TRUE,
              unit |-> Some(CASE e = 1 -> t_attacker
                              [] e = 2 -> t_defender
                              [] OTHER -> Unit(1, 1, 1, 1, 1, 1)),
              hexagon |-> None, player |-> None]
        ELSE NoEntity]

RulesInit ==
    /\ t_pc = "input"
    /\ t_attacker \in AttackerInputs
    /\ t_defender \in DefenderInputs
    /\ t_distance = 0
    /\ t_elapsed = <<0, 0>>
    /\ t_result = NoResult
    /\ t_can = NoCanMove
    /\ t_world0 = NoWorld
    /\ t_world = NoWorld
    /\ t_call = NoCall

\* attacker.attack(&defender)
RulesAttack ==
    /\ t_pc = "input"
    /\ t_result' = attack(t_attacker, t_defender)
    /\ t_pc' = "attacked"
    /\ UNCHANGED <<t_elapsed, t_attacker, t_defender, t_distance,
                   t_can, t_world0, t_world,
                   t_call>>
    /\ UNCHANGED session_vars
    /\ UNCHANGED node_vars

\* unit.can_move(distance)
RulesCanMove ==
    /\ t_pc = "input"
    /\ \E distance \in 0..(MaxStat + 1) :
          /\ t_distance' = distance
          /\ UNCHANGED t_elapsed
          /\ t_can' = can_move(t_attacker, distance)
    /\ t_pc' = "can_move"
    /\ UNCHANGED <<t_attacker, t_defender, t_result, t_world0, t_world, t_call>>
    /\ UNCHANGED session_vars
    /\ UNCHANGED node_vars

\* GameWorld::handle_attack_result(&mut world, attacker, defender, result)
RulesCommit ==
    /\ t_pc = "attacked"
    /\ t_result.ok
    /\ \E present \in SUBSET Entities :
          /\ t_world0' = TestWorld(present)
          /\ t_world' = handle_attack_result(TestWorld(present), 1, 2, t_result)
    /\ t_pc' = "committed"
    /\ UNCHANGED <<t_elapsed, t_attacker, t_defender, t_distance,
                   t_result, t_can, t_call>>
    /\ UNCHANGED session_vars
    /\ UNCHANGED node_vars

RulesNext == RulesAttack \/ RulesCanMove \/ RulesCommit

SpecRulesInit == SessionInit /\ RulesInit

SpecRules == SpecRulesInit /\ [][RulesNext]_vars

(***************************************************************************)
(* A left click taken on its own: the session is drawn from the states a   *)
(* game of four units can be in when the click arrives (the units          *)
(* anywhere on the field, one to a cell, nothing or one of them selected), *)
(* one action applies hex_left_clicked to it, the other runs the frames    *)
(* that follow.  t_world0 keeps the world and t_call the state, the        *)
(* clicked cell, the visibility and the path of the click, and whether     *)
(* its closure ran.                                                        *)
(***************************************************************************)
\* the four units of _ready, two to a player, placed one to a cell; the
\* field looks the same from each of its six outer cells, so unit 1 is put
\* on the centre or on (1, 0) only
ClickWorlds ==
    { [e \in Entities |->
          CASE e = 1 -> Spawn(0, h[1], Unit(2, 1, 2, 2, 2, 1))
            [] e = 2 -> Spawn(0, h[2], Unit(1, 2, 1, 0, 0, 1))
            [] e = 3 -> Spawn(1, h[3], Unit(2, 2, 0, 0, 0, 1))
            [] OTHER -> Spawn(1, h[4], Unit(1, 1, 1, 1, 1, 1))] :
      h \in { g \in [Entities -> Field] :
                 /\ g[1] \in { <<0, 0>>, <<1, 0>> }
                 /\ \A a, b \in Entities : a # b => g[a] # g[b] } }

ClickInit ==
    /\ world \in ClickWorlds
    /\ state \in {Waiting} \cup { Selected(e) : e \in Entities }
    /\ current_player = Some(0)
    /\ current_path = <<>>
    /\ poisoned = FALSE
    /\ rounds = 0
    /\ skipped = FALSE
    /\ NodesIdle

\* hex_left_clicked(data) on the drawn session
ClickApply ==
    /\ t_pc = "click_input"
    /\ \E contended \in Contention :
          \E clicked_hexagon \in Cells(contended),
             is_visible \in Visibility(contended) :
             \E path \in path_choices(GS, clicked_hexagon) :
                /\ with_game_state(contended,
                      hex_left_clicked(GS, clicked_hexagon, is_visible, path))
                /\ t_call' = [state |-> state,
                              clicked_hexagon |-> clicked_hexagon,
                              is_visible |-> is_visible, path |-> path,
                              ran |-> ~contended]
    /\ t_world0' = world
    /\ t_pc' = "clicked"
    /\ UNCHANGED rounds
    /\ UNCHANGED <<t_elapsed, t_attacker, t_defender, t_distance,
                   t_result, t_can, t_world>>
    /\ UNCHANGED node_vars

\* the frames of _process that follow the click, no other input between
ClickStep ==
    /\ t_pc \in {"clicked", "stepped"}
    /\ \E contended \in Contention :
          \E delta \in (IF contended \/ state.tag # "Moving"
                         THEN {1} ELSE 1..MaxFrame) :
             with_game_state(contended, process(GS, delta))
    /\ t_pc' = "stepped"
    /\ UNCHANGED rounds
    /\ UNCHANGED <<t_elapsed, t_attacker, t_defender, t_distance,
                   t_result, t_can,
                   t_world0, t_world, t_call>>
    /\ UNCHANGED node_vars

ClickNext == ClickApply \/ ClickStep

SpecClickInit ==
    /\ ClickInit
    /\ t_pc = "click_input"
    /\ t_attacker = Unit(0, 0, 0, 0, 0, 0)
    /\ t_defender = Unit(0, 0, 0, 0, 0, 0)
    /\ t_distance = 0
    /\ t_elapsed = <<0, 0>>
    /\ t_result = NoResult
    /\ t_can = NoCanMove
    /\ t_world0 = NoWorld
    /\ t_world = NoWorld
    /\ t_call = NoCall

SpecClick == SpecClickInit /\ [][ClickNext]_vars

\* a frame after the click whose closure runs: the engine calls _process on
\* every frame, and the call goes through whenever the lock is free
ClickStepRuns == ClickStep /\ ~skipped'

SpecClickFair == SpecClickInit /\ [][ClickNext]_vars /\ WF_vars(ClickStepRuns)

(***************************************************************************)
(* A movement paced by its frames: after the click, frames of any delta    *)
(* run while the movement is pending.  t_elapsed adds up the deltas of the *)
(* frames whose closure ran, without rounding: <<T, x>> stands for T/20 s  *)
(* plus x fifths of 2^-57 s, and a frame of the double nearest to delta/20 *)
(* adds <<delta, F64Err[delta]>>.                                          *)
(***************************************************************************)
PaceStep ==
    /\ t_pc \in {"clicked", "paced"}
    /\ state.tag = "Moving"
    /\ \E contended \in Contention :
          \E delta \in (IF contended THEN {1} ELSE 1..MaxFrame) :
             /\ contended \/ t_elapsed[1] + delta <= MaxElapsed
             /\ with_game_state(contended, process(GS, delta))
             /\ t_elapsed' = IF contended THEN t_elapsed
                             ELSE <<t_elapsed[1] + delta,
                                    t_elapsed[2] + F64Err[delta]>>
    /\ t_pc' = "paced"
    /\ UNCHANGED rounds
    /\ UNCHANGED <<t_attacker, t_defender, t_distance, t_result, t_can,
                   t_world0, t_world, t_call>>
    /\ UNCHANGED node_vars

PaceNext == ClickApply \/ PaceStep

SpecPace == SpecClickInit /\ [][PaceNext]_vars

(***************************************************************************)
(* The hover preview after a left click: the mouse enters and leaves cells *)
(* of the field.  t_world0 keeps the world and t_call the state before the *)
(* call, the cell the mouse entered and the path find_path gave for it.    *)
(***************************************************************************)
\* hex_mouse_entered(data)
HoverEnter ==
    /\ t_pc \in {"clicked", "hovered", "left"}
    /\ \E contended \in Contention :
          \E mouse_hexagon \in Cells(contended) :
             \E path \in path_choices(GS, mouse_hexagon) :
                /\ with_game_state(contended,
                      hex_mouse_entered(GS, mouse_hexagon, path))
                /\ t_call' = [state |-> state,
                              clicked_hexagon |-> mouse_hexagon,
                              is_visible |-> FALSE, path |-> path,
                              ran |-> ~contended]
    /\ t_world0' = world
    /\ t_pc' = "hovered"
    /\ UNCHANGED rounds
    /\ UNCHANGED <<t_elapsed, t_attacker, t_defender, t_distance,
                   t_result, t_can, t_world>>
    /\ UNCHANGED node_vars

\* hex_mouse_exited(data)
HoverLeave ==
    /\ t_pc \in {"clicked", "hovered"}
    /\ \E contended \in Contention :
          /\ with_game_state(contended, hex_mouse_exited(GS))
          /\ t_call' = [NoCall EXCEPT !.state = state, !.ran = ~contended]
    /\ t_world0' = world
    /\ t_pc' = "left"
    /\ UNCHANGED rounds
    /\ UNCHANGED <<t_elapsed, t_attacker, t_defender, t_distance,
                   t_result, t_can, t_world>>
    /\ UNCHANGED node_vars

HoverNext == ClickApply \/ HoverEnter \/ HoverLeave

SpecHover == SpecClickInit /\ [][HoverNext]_vars

(***************************************************************************)
(* A frame of State::Moving taken on its own, as a function of the session *)
(* it finds: the session is drawn from Moving states whose entity or path  *)
(* may have gone stale (the entity removed, without its Unit or its        *)
(* Hexagon, the path empty or not leading on from the entity's cell), the  *)
(* action applies _process to it.  t_world0 keeps the world, t_call the    *)
(* state and t_distance the delta of the frame.                            *)
(***************************************************************************)
\* the deployment with entity 1 as it may be found: with 0 to 2 cells of
\* range, without its Unit, without its Hexagon, or removed
FrameWorlds ==
    { [Deployment EXCEPT ![1] = x] :
        x \in { Spawn(0, <<1, 0>>, Unit(2, 1, 2, 2, r, 1)) : r \in 0..2 }
           \cup { [Spawn(0, <<1, 0>>, Unit(2, 1, 2, 2, 2, 1))
                     EXCEPT !.unit = None],
                  [Spawn(0, <<1, 0>>, Unit(2, 1, 2, 2, 2, 1))
                     EXCEPT !.hexagon = None],
                  NoEntity } }

\* the paths of up to two cells of the field
FramePaths ==
    { <<>> } \cup { <<a>> : a \in Field }
             \cup { <<a, b>> : a \in Field, b \in Field }

FrameInit ==
    /\ world \in FrameWorlds
    /\ state \in { Moving(1, path, total_time) :
                      path \in FramePaths,
                      total_time \in { F64(t) : t \in 0..SECONDS_PER_MOVEMENT } }
    /\ current_player = Some(0)
    /\ current_path = <<>>
    /\ poisoned = FALSE
    /\ rounds = 0
    /\ skipped = FALSE
    /\ NodesIdle

\* _process(delta) on the drawn session
FrameApply ==
    /\ t_pc = "frame_input"
    /\ \E contended \in Contention :
          \E delta \in (IF contended THEN {1} ELSE 1..MaxFrame) :
             /\ with_game_state(contended, process(GS, delta))
             /\ t_distance' = delta
             /\ UNCHANGED t_elapsed
             /\ t_call' = [NoCall EXCEPT !.state = state, !.ran = ~contended]
    /\ t_world0' = world
    /\ t_pc' = "framed"
    /\ UNCHANGED rounds
    /\ UNCHANGED <<t_attacker, t_defender, t_result, t_can, t_world>>
    /\ UNCHANGED node_vars

FrameNext == FrameApply

SpecFrameInit ==
    /\ FrameInit
    /\ t_pc = "frame_input"
    /\ t_attacker = Unit(0, 0, 0, 0, 0, 0)
    /\ t_defender = Unit(0, 0, 0, 0, 0, 0)
    /\ t_distance = 0
    /\ t_elapsed = <<0, 0>>
    /\ t_result = NoResult
    /\ t_can = NoCanMove
    /\ t_world0 = NoWorld
    /\ t_world = NoWorld
    /\ t_call = NoCall

SpecFrame == SpecFrameInit /\ [][FrameNext]_vars

(***************************************************************************)
(* A left click or a frame taken on its own on a session that holds an     *)
(* error condition: the entity the state names may be removed or lack its  *)
(* Unit, its Hexagon or its player, its unit may have no attack left, and  *)
(* there may be no current player.                                         *)
(***************************************************************************)
\* the deployment with entity 1 as it may be found
FaultWorlds ==
    { [Deployment EXCEPT ![1] = x] :
        x \in { Spawn(0, <<1, 0>>, Unit(2, 1, 2, 2, 2, 1)),
                Spawn(0, <<1, 0>>, Unit(2, 1, 2, 2, 2, 0)),
                [Spawn(0, <<1, 0>>, Unit(2, 1, 2, 2, 2, 1))
                   EXCEPT !.unit = None],
                [Spawn(0, <<1, 0>>, Unit(2, 1, 2, 2, 2, 1))
                   EXCEPT !.hexagon = None],
                [Spawn(0, <<1, 0>>, Unit(2, 1, 2, 2, 2, 1))
                   EXCEPT !.player = None],
                NoEntity } }

FaultInit ==
    /\ world \in FaultWorlds
    /\ state \in {Selected(1), Attacking(1, 3), Attacking(3, 1)}
                 \cup { Moving(1, <<a>>, F64(SECONDS_PER_MOVEMENT)) :
                           a \in Field }
    /\ current_player \in {None, Some(0), Some(1)}
    /\ current_path = <<>>
    /\ poisoned = FALSE
    /\ rounds = 0
    /\ skipped = FALSE
    /\ NodesIdle

FaultNext == ClickApply \/ FrameApply

SpecFaultInit ==
    /\ FaultInit
    /\ t_pc \in {"click_input", "frame_input"}
    /\ t_attacker = Unit(0, 0, 0, 0, 0, 0)
    /\ t_defender = Unit(0, 0, 0, 0, 0, 0)
    /\ t_distance = 0
    /\ t_elapsed = <<0, 0>>
    /\ t_result = NoResult
    /\ t_can = NoCanMove
    /\ t_world0 = NoWorld
    /\ t_world = NoWorld
    /\ t_call = NoCall

SpecFault == SpecFaultInit /\ [][FaultNext]_vars

(***************************************************************************)
(* Hexagon::distance_to taken on its own: three cells a, b, c are drawn   *)
(* from a field, kept in t_call.path, and the action measures the distance *)
(* from a to b into t_distance.                                            *)
(***************************************************************************)
HexInit ==
    /\ t_pc = "hex_input"
    /\ t_call \in { [NoCall EXCEPT !.path = <<a, b, c>>] :
                       a \in generate_field(MaxRadius),
                       b \in generate_field(MaxRadius),
                       c \in generate_field(MaxRadius) }
    /\ t_attacker = Unit(0, 0, 0, 0, 0, 0)
    /\ t_defender = Unit(0, 0, 0, 0, 0, 0)
    /\ t_distance = 0
    /\ t_elapsed = <<0, 0>>
    /\ t_result = NoResult
    /\ t_can = NoCanMove
    /\ t_world0 = NoWorld
    /\ t_world = NoWorld

\* a.distance_to(&b)
HexMeasure ==
    /\ t_pc = "hex_input"
    /\ t_distance' = distance_to(t_call.path[1], t_call.path[2])
    /\ t_pc' = "measured"
    /\ UNCHANGED <<t_elapsed, t_attacker, t_defender, t_result, t_can,
                   t_world0, t_world, t_call>>
    /\ UNCHANGED session_vars
    /\ UNCHANGED node_vars

HexNext == HexMeasure

SpecHexInit == SessionInit /\ HexInit

SpecHex == SpecHexInit /\ [][HexNext]_vars

(***************************************************************************)
(* The session from deployments that differ in the range and the mobility  *)
(* of the mobile unit: frames, left clicks and new rounds.                 *)
(***************************************************************************)
\* the deployment with unit 1 given any remaining_range >= 0 and mobility >= 0
RangeWorlds ==
    { [Deployment EXCEPT ![1] = Spawn(0, <<1, 0>>, Unit(2, 1, 2, m, r, 1))] :
        m \in 0..MaxStat, r \in 0..MaxStat }

RangeInit ==
    /\ world \in RangeWorlds
    /\ state = Waiting
    /\ current_player = Some(0)
    /\ current_path = <<>>
    /\ poisoned = FALSE
    /\ rounds = 0
    /\ skipped = FALSE
    /\ NodesIdle

RangeNext == Step \/ SelectOrAct \/ NewRound

SpecRangeInit == RangeInit /\ RulesIdle

SpecRange == SpecRangeInit /\ [][RangeNext]_vars

(***************************************************************************)
(* A game of several rounds: frames, left clicks and new rounds from the   *)
(* deployment.  t_world0 keeps the world as the latest on_new_round left   *)
(* it.                                                                     *)
(***************************************************************************)
\* step(delta) with frames of 0.15 s, each long enough for one cell of a
\* pending movement
TurnFrame ==
    \E contended \in Contention :
        /\ WithinOverdraw
        /\ with_game_state(contended, process(GS, SECONDS_PER_MOVEMENT + 1))
        /\ UNCHANGED rounds
        /\ UNCHANGED rules_vars
        /\ UNCHANGED node_vars

\* new_round()
NewTurn ==
    \E contended \in Contention :
        /\ rounds < MaxTurns
        /\ with_game_state(contended, on_new_round(GS))
        /\ rounds' = IF contended THEN rounds ELSE rounds + 1
        /\ t_world0' = IF contended THEN t_world0 ELSE on_new_round(GS).gs.world
        /\ UNCHANGED <<t_pc, t_attacker, t_defender, t_distance, t_result,
                       t_can, t_world, t_call, t_elapsed>>
        /\ UNCHANGED node_vars

TurnsNext == TurnFrame \/ SelectOrAct \/ NewTurn

SpecTurns == Init /\ [][TurnsNext]_vars

(***************************************************************************)
(* A left click that arrives while a movement or an attack is pending:     *)
(* left clicks and frames from the deployment lead to the pending state,   *)
(* one action applies the click to it, and frames follow.  t_world0 keeps  *)
(* the world and t_call the state and the cell of that click, and whether  *)
(* its closure ran.                                                        *)
(***************************************************************************)
\* select_or_act(coordinate) before the click that interrupts
PlayClick == t_pc = "idle" /\ SelectOrAct

\* step(delta) before the click that interrupts
PlayFrame == t_pc = "idle" /\ Step

\* hex_left_clicked(data) in State::Moving or State::Attacking
Interrupt ==
    /\ t_pc = "idle"
    /\ state.tag \in {"Moving", "Attacking"}
    /\ \E contended \in Contention :
          \E clicked_hexagon \in Cells(contended) :
             /\ with_game_state(contended,
                   hex_left_clicked(GS, clicked_hexagon, FALSE, <<>>))
             /\ t_call' = [state |-> state,
                           clicked_hexagon |-> clicked_hexagon,
                           is_visible |-> FALSE, path |-> <<>>,
                           ran |-> ~contended]
    /\ t_world0' = world
    /\ t_pc' = "interrupted"
    /\ UNCHANGED rounds
    /\ UNCHANGED <<t_elapsed, t_attacker, t_defender, t_distance,
                   t_result, t_can, t_world>>
    /\ UNCHANGED node_vars

\* the frames of _process that follow the click, no other input between
InterruptStep ==
    /\ t_pc \in {"interrupted", "resumed"}
    /\ t_call.ran
    /\ \E contended \in Contention :
          \E delta \in Deltas(contended) :
             with_game_state(contended, process(GS, delta))
    /\ t_pc' = "resumed"
    /\ UNCHANGED rounds
    /\ UNCHANGED <<t_elapsed, t_attacker, t_defender, t_distance,
                   t_result, t_can, t_world0, t_world, t_call>>
    /\ UNCHANGED node_vars

InterruptNext == PlayClick \/ PlayFrame \/ Interrupt \/ InterruptStep

SpecInterrupt == Init /\ [][InterruptNext]_vars

(***************************************************************************)
(* A frame that finds nothing pending: left clicks, hovers and frames from *)
(* the deployment lead to a state Waiting or Selected, and one action      *)
(* applies a frame of any delta to it.  t_distance keeps the delta.        *)
(***************************************************************************)
\* hover(coordinate) before the frame
PlayHover == t_pc = "idle" /\ Hover

\* _process(delta) in State::Waiting or State::Selected
IdleFrame ==
    /\ t_pc = "idle"
    /\ state.tag \in {"Waiting", "Selected"}
    /\ \E contended \in Contention :
          \E delta \in (IF contended THEN {1} ELSE 1..MaxFrame) :
             /\ with_game_state(contended, process(GS, delta))
             /\ t_distance' = delta
    /\ t_pc' = "framed"
    /\ UNCHANGED rounds
    /\ UNCHANGED <<t_elapsed, t_attacker, t_defender, t_result, t_can,
                   t_world0, t_world, t_call>>
    /\ UNCHANGED node_vars

IdleNext == PlayClick \/ PlayFrame \/ PlayHover \/ IdleFrame

SpecIdle == Init /\ [][IdleNext]_vars

(***************************************************************************)
(* The render nodes: the whole of _process, with the entity notifications  *)
(* of world.subscribe(sender, component::<NodeComponent>()) and the node   *)
(* handles of node_entity, and left clicks between the frames.             *)
(***************************************************************************)
\* create_nodes: the entities of the world that have no NodeComponent yet
create_nodes(w, nodes) == { e \in Entities : w[e].present } \ nodes

\* the entities that leave the world between w0 and w1 with a NodeComponent
removed_nodes(w0, w1, nodes) ==
    { e \in nodes : w0[e].present /\ ~w1[e].present }

\* _process(delta).
\*   c_exec: the lock is held when UpdateNodes::execute asks for it;
\*   recorded: the entities, of those with an EntityInserted notification,
\*       for which `with_game_state` gets the lock in `for entity in
\*       added_entities`;
\*   c_main: the lock is held when the frame's closure asks for it.
\* The notifications of the nodes created in this frame are drained in this
\* frame; those of the entities the closure removes wait for the next one.
NodeFrame ==
    /\ ~node_panic
    /\ WithinOverdraw
    /\ \E c_exec \in Contention, c_main \in Contention :
          LET created == IF c_exec THEN {}
                         ELSE create_nodes(world, node_component)
              nodes == node_component \cup created
              added_entities == created
              removed_entities == { event_receiver[i] :
                                      i \in 1..Len(event_receiver) }
          IN  \E recorded \in (IF poisoned THEN { {} }
                                ELSE SUBSET added_entities),
                 delta \in Deltas(c_main) :
                 LET handles == node_entity \cup recorded
                 IN  /\ node_entity' = handles
                     /\ IF \E e \in removed_entities : e \notin handles
                        THEN \* self.node_entity[&entity] without the key
                             /\ node_panic' = TRUE
                             /\ event_receiver' = <<>>
                             /\ node_component' = nodes
                             /\ UNCHANGED session_vars
                        ELSE /\ node_panic' = FALSE
                             /\ with_game_state(c_main, process(GS, delta))
                             /\ UNCHANGED rounds
                             /\ event_receiver' =
                                   SetToSeq(removed_nodes(world, world', nodes))
                             /\ node_component' =
                                   nodes \ removed_nodes(world, world', nodes)
    /\ UNCHANGED rules_vars
    /\ UNCHANGED selected_entity

NodesNext == NodeFrame \/ SelectOrAct

SpecNodes == Init /\ [][NodesNext]_vars

(***************************************************************************)
(* The click handler of src/src/gameworld.rs, GameWorld::hex_clicked, on   *)
(* its own world: two units on a field whose every cell is an entity       *)
(* without Unit, so that a click names a cell.  t_call keeps the clicked   *)
(* cell.                                                                   *)
(***************************************************************************)
\* the closure of hex_clicked for a click on the cell `clicked_hexagon`:
\* the world and the selection it leaves
hex_clicked(w, selected, clicked_hexagon) ==
    LET units_at == { e \in Entities :
                        /\ w[e].present /\ IsSome(w[e].unit)
                        /\ w[e].hexagon = Some(clicked_hexagon) }
        clicked_entity == CHOOSE e \in units_at : TRUE
        unchanged == [world |-> w, selected_entity |-> selected]
    IN  IF ~IsSome(selected)
        THEN IF units_at = {}
             THEN unchanged
             ELSE [world |-> w, selected_entity |-> Some(clicked_entity)]
        ELSE LET selected_entity0 == Get(selected)
             IN  IF ~w[selected_entity0].present
                 THEN unchanged
                 ELSE IF units_at # {}
                 THEN IF ~IsSome(w[selected_entity0].unit)
                      THEN unchanged
                      ELSE LET selected_unit == Get(w[selected_entity0].unit)
                               clicked_unit == Get(w[clicked_entity].unit)
                               result == attack(selected_unit, clicked_unit)
                               w1 == [w EXCEPT ![selected_entity0].unit =
                                                  Some(result.attacker)]
                           IN  IF selected_unit.remaining_attacks <= 0
                               THEN [world |-> w, selected_entity |-> None]
                               ELSE IF ~result.ok
                               THEN [world |-> w, selected_entity |-> None]
                               ELSE IF result.defender.integrity <= 0
                               THEN [world |-> remove(w1, clicked_entity),
                                     selected_entity |-> None]
                               ELSE [world |->
                                        [w1 EXCEPT ![clicked_entity].unit =
                                                      Some(result.defender)],
                                     selected_entity |-> None]
                 ELSE LET selected_unit == Get(w[selected_entity0].unit)
                          selected_hexagon == Get(w[selected_entity0].hexagon)
                          distance == distance_to(selected_hexagon,
                                                  clicked_hexagon)
                          cm == can_move(selected_unit, distance)
                      IN  IF cm.yes
                          THEN [world |->
                                  [w EXCEPT
                                     ![selected_entity0].hexagon =
                                         Some(clicked_hexagon),
                                     ![selected_entity0].unit =
                                         Some(Unit(selected_unit.integrity,
                                                   selected_unit.damage,
                                                   selected_unit.armor,
                                                   selected_unit.mobility,
                                                   cm.remaining_range,
                                                   selected_unit.remaining_attacks))],
                                selected_entity |-> None]
                          ELSE unchanged

\* world.insert((Hexagon,), vec![(NodeTemplate, Unit)]): a unit without
\* PlayerComponent
Insert(hexagon, unit) ==
    [present |-> TRUE, unit |-> Some(unit), hexagon |-> Some(hexagon),
     player |-> None]

\* the two units of _ready on (0, 0) and (0, 1), with any integrity and
\* remaining range up to MaxStat
EarlierWorlds ==
    { [e \in Entities |->
          CASE e = 1 -> Insert(<<0, 0>>, Unit(i[1], 2, 1, MaxStat, r[1], 1))
            [] e = 2 -> Insert(<<0, 1>>, Unit(i[2], 2, 1, MaxStat, r[2], 1))
            [] OTHER -> NoEntity] :
      i \in [1..2 -> 1..MaxStat], r \in [1..2 -> 0..MaxStat] }

EarlierInit ==
    /\ world \in EarlierWorlds
    /\ state = Waiting
    /\ current_player = None
    /\ current_path = <<>>
    /\ poisoned = FALSE
    /\ rounds = 0
    /\ skipped = FALSE
    /\ event_receiver = <<>>
    /\ node_entity = {}
    /\ node_component = {}
    /\ node_panic = FALSE
    /\ selected_entity = None

\* hex_clicked(data), data the index of the entity of a cell of the field
EarlierClick ==
    /\ t_pc \in {"idle", "hex_clicked"}
    /\ \E clicked_hexagon \in Field :
          LET out == hex_clicked(world, selected_entity, clicked_hexagon)
          IN  /\ world' = out.world
              /\ selected_entity' = out.selected_entity
              /\ t_call' = [NoCall EXCEPT !.clicked_hexagon = clicked_hexagon,
                                          !.ran = TRUE]
    /\ t_pc' = "hex_clicked"
    /\ UNCHANGED <<state, current_player, current_path, poisoned, rounds,
                   skipped>>
    /\ UNCHANGED <<t_elapsed, t_attacker, t_defender, t_distance,
                   t_result, t_can, t_world0, t_world>>
    /\ UNCHANGED <<event_receiver, node_entity, node_component, node_panic>>

EarlierNext == EarlierClick

SpecEarlierInit == EarlierInit /\ RulesIdle

SpecEarlier == SpecEarlierInit /\ [][EarlierNext]_vars

(***************************************************************************)
(* Transitions of the session, for the properties below.                   *)
(***************************************************************************)
\* the units of a world
Units(w) == { e \in Entities : w[e].present /\ IsSome(w[e].unit) }
UnitOf(w, e) == Get(w[e].unit)

\* this step is a frame of _process whose closure ran
StepExecuted ==
    /\ ~skipped'
    /\ UNCHANGED rounds
    /\ \E delta \in 1..MaxDelta :
          LET out == process(GS, delta).gs
          IN  /\ world' = out.world
              /\ state' = out.state
              /\ current_player' = out.current_player
              /\ current_path' = out.current_path

\* this step is an on_new_round whose closure ran
NewRoundExecuted == ~skipped' /\ rounds' = rounds + 1

\* the session is left as the closure's result `out` says
Leaves(out) ==
    /\ ~skipped'
    /\ UNCHANGED rounds
    /\ poisoned' = out.panic
    /\ world' = out.gs.world
    /\ state' = out.gs.state
    /\ current_player' = out.gs.current_player
    /\ current_path' = out.gs.current_path

\* this step is a right click whose closure ran
CancelExecuted == Leaves(hex_right_clicked(GS))


(***************************************************************************)
(* Properties.                                                             *)
(***************************************************************************)

\* C1: attack returns the error NoAttacksLeft for every attacker with
\* remaining_attacks <= 0, whatever the defender, and an Ok AttackResult for
\* every attacker with remaining_attacks >= 1.
C1_AttackFailsWithoutAttacksLeft ==
    t_pc = "attacked" =>
        /\ t_attacker.remaining_attacks <= 0 =>
              ~t_result.ok /\ t_result.error = "NoAttacksLeft"
        /\ t_attacker.remaining_attacks >= 1 => t_result.ok

\* C2: whenever attack returns Ok, the returned attacker has mobility 0 and
\* one attack less than the attacker had, and the integrity, damage, armor
\* and remaining_range of the attacker.
C2_AttackUpdatesAttacker ==
    t_pc = "attacked" /\ t_result.ok =>
        /\ t_result.attacker.mobility = 0
        /\ t_result.attacker.remaining_attacks = t_attacker.remaining_attacks - 1
        /\ t_result.attacker.integrity = t_attacker.integrity
        /\ t_result.attacker.damage = t_attacker.damage
        /\ t_result.attacker.armor = t_attacker.armor
        /\ t_result.attacker.remaining_range = t_attacker.remaining_range

\* an attacker that could still move has attacked
C2_Witness ==
    /\ t_pc = "attacked" /\ t_result.ok
    /\ t_attacker.mobility > 0
    /\ t_attacker.remaining_attacks >= 1

\* C3: whenever attack returns Ok, actual_damage is attacker.damage minus
\* defender.armor, not clamped at zero, the returned defender has the
\* defender's integrity less actual_damage, and every other field of the
\* defender is as it was.
C3_AttackUpdatesDefender ==
    t_pc = "attacked" /\ t_result.ok =>
        /\ t_result.actual_damage = t_attacker.damage - t_defender.armor
        /\ t_result.defender =
              [t_defender EXCEPT !.integrity = @ - t_result.actual_damage]
        /\ t_defender.armor > t_attacker.damage => t_result.actual_damage < 0

\* an attack on a defender whose armor exceeds the damage has raised the
\* defender's integrity
C3_Witness ==
    /\ t_pc = "attacked" /\ t_result.ok
    /\ t_defender.armor > t_attacker.damage
    /\ t_result.defender.integrity > t_defender.integrity

\* C4: for every unit u and distance d >= 0, can_move(u, d) is
\* Yes(u.remaining_range - d) exactly when d <= u.remaining_range, d equal to
\* the range included, and No otherwise.
C4_CanMove ==
    t_pc = "can_move" =>
        /\ t_can.yes <=> t_distance <= t_attacker.remaining_range
        /\ t_can.yes =>
              t_can.remaining_range = t_attacker.remaining_range - t_distance

\* a unit was asked for a move of exactly its remaining range
C4_Witness ==
    /\ t_pc = "can_move"
    /\ t_attacker.remaining_range > 0
    /\ t_distance = t_attacker.remaining_range
    /\ t_can.yes /\ t_can.remaining_range = 0

C6_AttackingEndsInWaiting ==
    [][(state.tag = "Attacking" \/ state'.tag = "Attacking") /\ StepExecuted
       => state.tag = "Attacking" /\ state' = Waiting]_vars

\* the attack of unit 1 has been resolved and the session waits
C6_Witness ==
    /\ state = Waiting /\ ~skipped /\ rounds = 0
    /\ world[1].present
    /\ UnitOf(world, 1).remaining_attacks = 0
    /\ UnitOf(world, 1).mobility = 0

\* C7: handle_attack_result replaces the attacker's Unit by result.attacker;
\* it removes the defender if result.defender.integrity <= 0 and replaces
\* the defender's Unit by result.defender otherwise; an attacker or defender
\* that is not in the world is skipped; no other entity is changed.
C7_CommitAttackResult ==
    t_pc = "committed" =>
        /\ t_world[1] = IF t_world0[1].present
                        THEN [t_world0[1] EXCEPT !.unit = Some(t_result.attacker)]
                        ELSE NoEntity
        /\ t_world[2] = IF t_world0[2].present /\ t_result.defender.integrity > 0
                        THEN [t_world0[2] EXCEPT !.unit = Some(t_result.defender)]
                        ELSE NoEntity
        /\ \A e \in Entities \ {1, 2} : t_world[e] = t_world0[e]

\* a result that destroys the defender was committed to a world that holds
\* the attacker, the defender and a bystander
C7_Witness ==
    /\ t_pc = "committed"
    /\ t_world0[1].present /\ t_world0[2].present /\ t_world0[3].present
    /\ t_result.defender.integrity <= 0
    /\ ~t_world[2].present
    /\ t_world[1].unit = Some(t_result.attacker)

\* C8: every unit in the world has integrity > 0, in every reachable state:
\* a unit an attack brings to zero or below is removed by the step that
\* resolves the attack.
C8_UnitsAlive ==
    \A e \in Units(world) : UnitOf(world, e).integrity > 0

\* unit 3 was destroyed by an attack
C8_Witness == ~world[3].present /\ state = Waiting

\* C9: when the state is Attacking(a, d) and a has remaining_attacks 0, the
\* frame that resolves the attack leaves the world as it was.
C9_NoAttacksLeftKeepsWorld ==
    [][(/\ state.tag = "Attacking"
        /\ state.entity \in Units(world)
        /\ state.defender \in Units(world)
        /\ UnitOf(world, state.entity).remaining_attacks = 0
        /\ StepExecuted)
       => world' = world]_vars

\* C10: every unit in the world has remaining_attacks >= 0, in every
\* reachable state.
C10_AttacksNeverNegative ==
    \A e \in Units(world) : UnitOf(world, e).remaining_attacks >= 0

\* C11: a right click that runs, in whatever state, leaves the state Waiting
\* and the hover path empty, and changes no entity: a pending movement or a
\* queued attack is dropped.
C11_CancelLeavesWaiting ==
    [][CancelExecuted =>
          /\ state' = Waiting
          /\ current_path' = <<>>
          /\ world' = world
          /\ current_player' = current_player]_vars

\* unit 1 was stopped one cell into a longer movement and the session waits
C11_Witness ==
    /\ state = Waiting /\ ~skipped /\ rounds = 0
    /\ world[1].present
    /\ world[1].hexagon # Deployment[1].hexagon
    /\ UnitOf(world, 1).remaining_range = 1
    /\ UnitOf(world, 1).remaining_attacks = 1

\* C12: whenever the state is Selected(e), e is a unit in the world and is
\* owned by the current player.
C12_SelectedIsOwnUnit ==
    state.tag = "Selected" =>
        /\ state.entity \in Units(world)
        /\ get_player_of_entity(world[state.entity]) = current_player

\* the cells of a world that hold an entity
EntityCells(w) ==
    { Get(w[e].hexagon) : e \in { x \in Entities :
          w[x].present /\ IsSome(w[x].hexagon) } }

\* C13: with Selected(u), u a unit of the current player, a left click on a
\* cell that holds no entity leaves the state Moving(u, path, 0) for the
\* non-empty path find_path gives from u's cell to the clicked cell, and
\* Waiting when find_path gives the empty path; the click changes no entity.
C13_ClickOnEmptyCell ==
    (/\ t_pc = "clicked" /\ ~skipped
     /\ t_call.state.tag = "Selected"
     /\ t_call.state.entity \in Units(t_world0)
     /\ get_player_of_entity(t_world0[t_call.state.entity]) = current_player
     /\ t_call.clicked_hexagon \notin EntityCells(t_world0))
    => LET u == t_call.state.entity
           paths == find_path(Get(t_world0[u].hexagon),
                              t_call.clicked_hexagon, t_world0)
       IN  /\ t_call.path \in paths
           /\ t_call.path # <<>> => state = Moving(u, t_call.path, F64(0))
           /\ t_call.path = <<>> => state = Waiting
           /\ world = t_world0
           /\ ~poisoned

\* a unit of the current player that the other three units shut in a corner
\* of the field was sent to a free cell: no path, the session waits
C13_Witness ==
    /\ t_pc = "clicked" /\ ~skipped
    /\ t_call.state = Selected(1)
    /\ t_call.clicked_hexagon \notin EntityCells(t_world0)
    /\ find_path(Get(t_world0[1].hexagon), t_call.clicked_hexagon, t_world0)
          = { <<>> }
    /\ state = Waiting
    /\ world = t_world0

\* C14: the state becomes Attacking(a, d) only from Selected(a), with a a
\* unit of the current player and d a unit of another player than a, d
\* other than a: a click on a unit of the attacker's own side queues no
\* attack.
C14_AttackOnlyEnemy ==
    [][state'.tag = "Attacking" /\ state' # state =>
          /\ state = Selected(state'.entity)
          /\ state'.entity \in Units(world)
          /\ state'.defender \in Units(world)
          /\ get_player_of_entity(world[state'.entity]) = current_player
          /\ get_player_of_entity(world[state'.defender]) #
                get_player_of_entity(world[state'.entity])
          /\ state'.defender # state'.entity]_vars

\* C15: with Selected(u), a left click on the cell of u leaves the state
\* Selected(u), queues no movement and no attack, and changes no entity.
C15_ClickOnSelectedUnit ==
    (/\ t_pc = "clicked" /\ ~skipped
     /\ t_call.state.tag = "Selected"
     /\ contains(t_world0, t_call.state.entity)
     /\ t_world0[t_call.state.entity].hexagon = Some(t_call.clicked_hexagon))
    => /\ state = t_call.state
       /\ world = t_world0
       /\ current_player = Some(0)
       /\ ~poisoned

\* the selected unit 1 was clicked again
C15_Witness ==
    /\ t_pc = "clicked" /\ ~skipped
    /\ t_call.state = Selected(1)
    /\ t_world0[1].hexagon = Some(t_call.clicked_hexagon)
    /\ state = Selected(1)

\* the clock t after m turns of the movement loop
RECURSIVE ClockAfter(_, _)
ClockAfter(t, m) ==
    IF m = 0 THEN t
    ELSE ClockAfter(f64_sub[t, F64(SECONDS_PER_MOVEMENT)], m - 1)

\* C16: a frame that runs in Moving(u, path, t) adds delta to t and applies
\* one cell of the path for every full SECONDS_PER_MOVEMENT of t: when
\* k - 1 steps leave exactly SECONDS_PER_MOVEMENT of t + delta, and u has
\* the range and the path the cells for k steps, u stands on the k-th cell
\* of the path afterwards and has k less remaining_range.
C16_StepsWhileTimeAtLeastTick ==
    [][\A delta \in 1..MaxDelta :
          (/\ state.tag = "Moving"
           /\ LET t == f64_add[state.total_time, F64(delta)]
              IN  /\ t[1] % SECONDS_PER_MOVEMENT = 0
                  /\ ClockAfter(t, (t[1] \div SECONDS_PER_MOVEMENT) - 1)
                        = F64(SECONDS_PER_MOVEMENT)
           /\ state.entity \in Units(world)
           /\ Len(state.path) >=
                 (state.total_time[1] + delta) \div SECONDS_PER_MOVEMENT
           /\ UnitOf(world, state.entity).remaining_range >=
                 (state.total_time[1] + delta) \div SECONDS_PER_MOVEMENT
           /\ Leaves(process(GS, delta)))
          => LET k == (state.total_time[1] + delta) \div SECONDS_PER_MOVEMENT
                 u == state.entity
             IN  /\ world'[u].hexagon = Some(state.path[k])
                 /\ UnitOf(world', u).remaining_range =
                       UnitOf(world, u).remaining_range - k]_vars

\* the click selected-unit u was sent along a path of n cells with
\* remaining_range r, and its closure ran
SentAlong(u, n, r) ==
    /\ t_pc \in {"clicked", "stepped", "paced"}
    /\ t_call.ran
    /\ t_call.state = Selected(u)
    /\ u \in Units(t_world0)
    /\ get_player_of_entity(t_world0[u]) = current_player
    /\ t_call.clicked_hexagon \notin EntityCells(t_world0)
    /\ Len(t_call.path) = n
    /\ UnitOf(t_world0, u).remaining_range = r

\* C17: a unit with remaining_range 2 sent along a path of three cells makes
\* exactly two movement steps, whatever the frames' deltas: it is never on
\* the third cell, its range reaches 0 with the second step, and when the
\* state has left Moving it is Waiting or Selected(u) and the unit stands on
\* the second cell of the path.
C17_RangeStopsMovement ==
    \A u \in Entities :
        SentAlong(u, 3, 2) =>
            LET p == t_call.path
                moved == 2 - UnitOf(world, u).remaining_range
            IN  /\ u \in Units(world)
                /\ moved \in 0..2
                /\ world[u].hexagon =
                      IF moved = 0 THEN t_world0[u].hexagon ELSE Some(p[moved])
                /\ world = [t_world0 EXCEPT ![u] = world[u]]
                /\ state.tag = "Moving" =>
                      /\ state.entity = u
                      /\ state.path = SubSeq(p, moved + 1, 3)
                /\ state.tag # "Moving" =>
                      /\ state \in {Waiting, Selected(u)}
                      /\ moved = 2

\* unit 1 stands on the second cell of its three-cell path with no range
\* left, and the movement is over
C17_Witness ==
    /\ SentAlong(1, 3, 2)
    /\ state = Selected(1)
    /\ world[1].hexagon = Some(t_call.path[2])
    /\ UnitOf(world, 1).remaining_range = 0

\* C18: every movement step a frame applies in Moving(u, path, t) takes one
\* cell from the front of the path, puts u on that cell, which is next to
\* the cell u was on, takes 1 from u's remaining_range and one
\* SECONDS_PER_MOVEMENT from the time, and changes no other field of u and
\* no other entity: a frame that applies m steps leaves u on the m-th cell
\* with m less range, the rest of the path and t + delta less m times
\* SECONDS_PER_MOVEMENT.
C18_MovementStep ==
    [][\A delta \in 1..MaxFrame :
          (/\ state.tag = "Moving"
           /\ state.entity \in Units(world)
           /\ IsSome(world[state.entity].hexagon)
           /\ Leaves(process(GS, delta)))
          => LET u == state.entity
                 path == state.path
                 m == UnitOf(world, u).remaining_range -
                      UnitOf(world', u).remaining_range
             IN  /\ u \in Units(world')
                 /\ m \in 0..Len(path)
                 /\ m > 0 =>
                       f64_gt[ClockAfter(f64_add[state.total_time,
                                                 F64(delta)], m - 1),
                              F64(SECONDS_PER_MOVEMENT)]
                 /\ world'[u].hexagon =
                       IF m = 0 THEN world[u].hexagon ELSE Some(path[m])
                 /\ \A i \in 1..m :
                       is_neighbour(IF i = 1 THEN Get(world[u].hexagon)
                                             ELSE path[i - 1], path[i])
                 /\ UnitOf(world', u) =
                       [UnitOf(world, u) EXCEPT !.remaining_range = @ - m]
                 /\ world'[u].player = world[u].player
                 /\ world' = [world EXCEPT ![u] = world'[u]]
                 /\ state'.tag = "Moving" =>
                       state' = Moving(u, SubSeq(path, m + 1, Len(path)),
                                       ClockAfter(f64_add[state.total_time,
                                                          F64(delta)], m))]_vars

\* unit 1 has made the first of the two steps of its path and the movement
\* goes on
C18_Witness ==
    /\ SentAlong(1, 2, 2)
    /\ state.tag = "Moving" /\ state.path = << t_call.path[2] >>
    /\ state.total_time[1] = 1
    /\ world[1].hexagon = Some(t_call.path[1])
    /\ UnitOf(world, 1).remaining_range = 1

\* the movement of entity u along path cannot take its next step in world w
Stale(w, u, path) ==
    \/ ~contains(w, u)
    \/ ~IsSome(w[u].unit)
    \/ ~IsSome(w[u].hexagon)
    \/ path = <<>>
    \/ ~is_neighbour(Get(w[u].hexagon), Head(path))

\* C19: a frame that runs in Moving(u, path, t) with t + delta past
\* SECONDS_PER_MOVEMENT, and finds u removed, without its Unit or without
\* its Hexagon, the path empty, or the next cell of the path not next to u's
\* cell, ends the movement in that frame: the state is Waiting or
\* Selected(u) and the cell is not applied.  The same holds when it is the
\* second cell of the path that does not lead on from the first.
C19_StaleMovementAborts ==
    (/\ t_pc = "framed" /\ t_call.ran
     /\ f64_gt[f64_add[t_call.state.total_time, F64(t_distance)],
               F64(SECONDS_PER_MOVEMENT)])
    => LET u == t_call.state.entity
           path == t_call.state.path
       IN  /\ Stale(t_world0, u, path) =>
                 /\ state \in {Waiting, Selected(u)}
                 /\ world = t_world0
           /\ (/\ ~Stale(t_world0, u, path)
               /\ UnitOf(t_world0, u).remaining_range = 2
               /\ Len(path) = 2 /\ ~is_neighbour(path[1], path[2])
               /\ f64_gt[ClockAfter(f64_add[t_call.state.total_time,
                                             F64(t_distance)], 1),
                         F64(SECONDS_PER_MOVEMENT)]) =>
                 /\ state = Selected(u)
                 /\ world[u].hexagon = Some(path[1])
           /\ ~poisoned

\* a frame found the next cell of the path two cells away from unit 1, which
\* had the range to go there, and gave the control back with the unit in
\* its place
C19_Witness ==
    /\ t_pc = "framed" /\ t_call.ran
    /\ f64_gt[f64_add[t_call.state.total_time, F64(t_distance)],
              F64(SECONDS_PER_MOVEMENT)]
    /\ 1 \in Units(t_world0) /\ IsSome(t_world0[1].hexagon)
    /\ UnitOf(t_world0, 1).remaining_range = 2
    /\ t_call.state.path # <<>>
    /\ distance_to(Get(t_world0[1].hexagon), Head(t_call.state.path)) = 2
    /\ state = Selected(1)
    /\ world = t_world0

\* C20: under frames that keep running with a positive delta and no other
\* input, a movement comes to its end: the state leaves Moving; a unit sent
\* along a path has made at most as many steps as the path has cells; and
\* the frame that takes the last cell of the path leaves Waiting or
\* Selected(u), never Moving with an empty path.
C20_MovementTerminates ==
    /\ (state.tag = "Moving") ~> (state.tag \in {"Waiting", "Selected"})
    /\ [](\A u \in Entities, n \in 1..3, r \in 0..2 :
            SentAlong(u, n, r) =>
                /\ UnitOf(world, u).remaining_range \in 0..r
                /\ r - UnitOf(world, u).remaining_range <= n
                /\ state.tag # "Moving" => state \in {Waiting, Selected(u)})
    /\ [](state.tag = "Moving" => state.path # <<>>)

\* unit 1 has walked its one-cell path to the end with range to spare and
\* is selected again
C20_Witness ==
    /\ SentAlong(1, 1, 2)
    /\ state = Selected(1)
    /\ world[1].hexagon = Some(t_call.path[1])
    /\ UnitOf(world, 1).remaining_range = 1

\* C21: after the mouse has entered a cell, the hover path is the path
\* find_path gives from the selected unit's cell to that cell whenever the
\* state is Selected(u), and empty whenever the state is not Selected.
C21_HoverPath ==
    (t_pc = "hovered" /\ t_call.ran) =>
        /\ (/\ t_call.state.tag = "Selected"
            /\ contains(t_world0, t_call.state.entity)
            /\ IsSome(t_world0[t_call.state.entity].hexagon)) =>
               /\ current_path = t_call.path
               /\ current_path \in
                     find_path(Get(t_world0[t_call.state.entity].hexagon),
                               t_call.clicked_hexagon, t_world0)
        /\ t_call.state.tag # "Selected" => current_path = <<>>

\* C22: the mouse entering or leaving a cell, in whatever state and for
\* whatever cell, leaves the state with its payload, the current player and
\* every entity as they were.
C22_HoverOnlyChangesPath ==
    t_pc \in {"hovered", "left"} =>
        /\ state = t_call.state
        /\ world = t_world0
        /\ current_player = Some(0)
        /\ ~poisoned

\* the mouse entered a cell while a movement was pending
C22_Witness ==
    /\ t_pc = "hovered" /\ t_call.ran
    /\ t_call.state.tag = "Moving"
    /\ state = t_call.state
    /\ current_path = <<>>

\* C23: a call that finds the session lock held (a frame's state update, a
\* left click, a hover, a right click or a new round) leaves the state, the
\* current player, the hover path and every entity exactly as they were;
\* the delta of a skipped frame is not added to the time of a Moving state.
C23_ContendedCallSkips ==
    [][skipped' => /\ world' = world
                   /\ state' = state
                   /\ current_player' = current_player
                   /\ current_path' = current_path
                   /\ rounds' = rounds]_vars

\* a call was skipped while a movement was pending with time on its clock
C23_Witness ==
    /\ skipped
    /\ state.tag = "Moving" /\ state.total_time[1] = 1
    /\ ~poisoned

\* the turns the movement loop takes on a clock of t
RECURSIVE LoopTurns(_)
LoopTurns(t) ==
    IF f64_gt[t, F64(SECONDS_PER_MOVEMENT)]
    THEN 1 + LoopTurns(f64_sub[t, F64(SECONDS_PER_MOVEMENT)])
    ELSE 0

\* the steps a movement sent along n cells with range r makes in a single
\* frame whose delta is the double nearest to T/20: one for every turn of the
\* loop, as far as the path and the range go
StepsAfter(T, n, r) ==
    LET byTime == LoopTurns(f64_add[F64(0), F64(T)])
        byPath == IF byTime < n THEN byTime ELSE n
    IN  IF byPath < r THEN byPath ELSE r

\* C24: the steps of a movement depend on the time its frames add up to and
\* not on how the time is cut into frames: whatever the deltas, a unit sent
\* along a path of n cells with range r has, after frames that add up to
\* exactly the time T of a single frame, made the steps of that single
\* frame, stands on that cell of the path and has that much less range.
C24_StepsDependOnTotalTime ==
    \A u \in Entities, n \in 1..3, r \in 0..2 :
        (/\ SentAlong(u, n, r) /\ t_pc # "stepped"
         /\ t_elapsed[2] = F64Err[t_elapsed[1]]) =>
            LET m == StepsAfter(t_elapsed[1], n, r)
            IN  /\ u \in Units(world)
                /\ UnitOf(world, u).remaining_range = r - m
                /\ world[u].hexagon =
                      IF m = 0 THEN t_world0[u].hexagon
                               ELSE Some(t_call.path[m])

\* the entity e of world w does not resolve or lacks its Unit
Unresolved(w, e) == ~contains(w, e) \/ ~IsSome(w[e].unit)

\* the error condition that a left click on the cell, answered with the
\* path, meets in the session (w, st, cp): in Selected(e) on a cell without
\* entity, e does not resolve, there is no current player, e has no player or
\* no Hexagon, or there is no path to the cell
ClickFault(w, st, cp, cell, path) ==
    /\ st.tag = "Selected"
    /\ cell \notin EntityCells(w)
    /\ \/ ~contains(w, st.entity)
       \/ ~IsSome(cp)
       \/ ~IsSome(w[st.entity].player)
       \/ ~IsSome(w[st.entity].hexagon)
       \/ path = <<>>

\* the error condition that a frame meets in the session (w, st): the moving
\* entity, due for a step, does not resolve or lacks its Unit or its Hexagon;
\* the attacker or the defender does not resolve or lacks its Unit, or the
\* attacker has no attack left
FrameFault(w, st) ==
    \/ /\ st.tag = "Moving"
       /\ Unresolved(w, st.entity) \/ ~IsSome(w[st.entity].hexagon)
    \/ /\ st.tag = "Attacking"
       /\ \/ Unresolved(w, st.entity)
          \/ Unresolved(w, st.defender)
          \/ UnitOf(w, st.entity).remaining_attacks <= 0

\* C25: no operation is fatal: a left click or a frame that meets an error
\* condition (an entity id that does not resolve, an entity without its
\* Unit, its Hexagon or its player, no current player, no path, no attack
\* left) does not panic and leaves the state Waiting.
C25_ErrorsRecovered ==
    (/\ t_call.ran
     /\ \/ /\ t_pc = "clicked"
            /\ ClickFault(t_world0, t_call.state, current_player,
                          t_call.clicked_hexagon, t_call.path)
        \/ /\ t_pc = "framed"
            /\ FrameFault(t_world0, t_call.state))
    => /\ ~poisoned
       /\ state = Waiting

\* C26: a new round leaves every unit with remaining_range <= mobility, and
\* no other operation adds to a unit's remaining_range or moves a unit
\* further than the range it takes from it, so that the cells a unit moves
\* in a round are at most its remaining_range at the start of the round.
\* (A step that leaves the world as it was moves nothing and adds nothing.)
C26_RangeBoundsMovement ==
    [][/\ NewRoundExecuted =>
             \A e \in Units(world') :
                UnitOf(world', e).remaining_range <= UnitOf(world', e).mobility
       /\ (~NewRoundExecuted /\ world' # world) =>
             \A e \in Units(world) \cap Units(world') :
                /\ UnitOf(world', e).remaining_range
                      <= UnitOf(world, e).remaining_range
                /\ IsSome(world[e].hexagon) /\ IsSome(world'[e].hexagon)
                /\ distance_to(Get(world[e].hexagon), Get(world'[e].hexagon))
                      <= UnitOf(world, e).remaining_range
                            - UnitOf(world', e).remaining_range]_vars

\* unit 1 has moved in the first round, and the new round has given it
\* its mobility as range again
C26_Witness ==
    /\ rounds = 1
    /\ world[1].hexagon # Deployment[1].hexagon
    /\ UnitOf(world, 1).mobility = 2
    /\ UnitOf(world, 1).remaining_range = 2

\* q is a route from `from` to `to` in world w: it leaves out `from`, ends at
\* `to`, goes from each cell to a cell next to it, and passes through no cell
\* that holds a unit
Route(q, from, to, w) ==
    /\ q # <<>>
    /\ q[Len(q)] = to
    /\ \A i \in 1..Len(q) :
          /\ q[i] \in Field
          /\ q[i] # from
          /\ is_neighbour(IF i = 1 THEN from ELSE q[i - 1], q[i])
          /\ i < Len(q) => q[i] \notin Occupied(w)

RECURSIVE Flood(_, _, _)
\* the cells that routes from the cells of S reach in world w
Flood(S, to, w) ==
    LET more == { n \in Field \ S :
                    /\ n = to \/ n \notin Occupied(w)
                    /\ \E c \in S : is_neighbour(c, n) }
    IN  IF more = {} THEN S ELSE Flood(S \cup more, to, w)

\* C27: the path that find_path answers from the cell of the selected
\* entity to the clicked cell leaves out the first cell, ends at the clicked
\* cell, goes from neighbour to neighbour, passes through no cell that holds
\* a unit, is as short as any such route, and is empty exactly when the two
\* cells are the same or no route exists; a path stored in Moving by the
\* click is the one answered, is not empty and starts next to the unit.
C27_FindPath ==
    \A u \in Entities :
        (/\ t_pc = "clicked" /\ t_call.ran
         /\ t_call.state = Selected(u)
         /\ contains(t_world0, u) /\ IsSome(t_world0[u].hexagon)) =>
            LET from == Get(t_world0[u].hexagon)
                to == t_call.clicked_hexagon
                path == t_call.path
            IN  /\ path # <<>> =>
                      /\ Route(path, from, to, t_world0)
                      /\ \A k \in 1..(Len(path) - 1) :
                            \A q \in [1..k -> Field] :
                               ~Route(q, from, to, t_world0)
                /\ path = <<>> <=>
                      \/ from = to
                      \/ to \notin Flood({from}, to, t_world0)
                /\ state.tag = "Moving" =>
                      /\ state.path = path
                      /\ path # <<>>
                      /\ is_neighbour(from, path[1])

\* the click has sent unit 1 to a cell two cells away along three cells,
\* around a unit that stands in between
C27_Witness ==
    /\ t_pc = "clicked" /\ t_call.ran
    /\ t_call.state = Selected(1)
    /\ state.tag = "Moving" /\ state.path = t_call.path
    /\ Len(t_call.path) = 3
    /\ distance_to(Get(t_world0[1].hexagon), t_call.clicked_hexagon) = 2

\* the six steps from a cell to the cells next to it
HexDirections ==
    { <<1, 0>>, <<-1, 0>>, <<0, 1>>, <<0, -1>>, <<1, -1>>, <<-1, 1>> }

\* C28: for all cells a, b, c of a bounded field the distance from a to a is
\* 0, the distance from a to b is 0 only if a = b, it is the distance from b
\* to a, it is at most the distance from a to c plus that from c to b, and
\* is_neighbour(a, b) holds exactly when the distance is 1, that is for the
\* six cells around a.
C28_DistanceIsMetric ==
    t_pc = "measured" =>
        LET a == t_call.path[1]
            b == t_call.path[2]
            c == t_call.path[3]
        IN  /\ t_distance = distance_to(a, b)
            /\ distance_to(a, a) = 0
            /\ t_distance = 0 => a = b
            /\ t_distance = distance_to(b, a)
            /\ t_distance <= distance_to(a, c) + distance_to(c, b)
            /\ is_neighbour(a, b) <=> t_distance = 1
            /\ t_distance = 1 <=>
                  <<b[1] - a[1], b[2] - a[2]>> \in HexDirections

\* two cells on opposite rims of the field and a third on the straight way
\* between them
C28_Witness ==
    /\ t_pc = "measured"
    /\ t_distance = 2 * MaxRadius
    /\ t_call.path[3] \notin {t_call.path[1], t_call.path[2]}
    /\ distance_to(t_call.path[1], t_call.path[3])
          + distance_to(t_call.path[3], t_call.path[2]) = t_distance

\* C29: in every state reached from the deployment by left clicks, hovers,
\* cancels, new rounds and frames, the entity of State::Selected is in the
\* world, and no lookup of it has panicked.
C29_SelectedEntityPresent ==
    /\ state.tag = "Selected" => contains(world, state.entity)
    /\ ~poisoned

\* unit 1 is selected after an attack has removed entity 3 from the world
C29_Witness ==
    /\ ~contains(world, 3)
    /\ state = Selected(1)

\* C30: in every state reached from the deployment, which has one unit per
\* cell, no two entities with a Unit stand on the same cell.
C30_OneUnitPerCell ==
    \A a, b \in Units(world) :
        (a # b /\ IsSome(world[a].hexagon) /\ IsSome(world[b].hexagon))
            => world[a].hexagon # world[b].hexagon

\* unit 1 has left its cell and is on its way, the other units in place
C30_Witness ==
    /\ state.tag = "Moving" /\ state.entity = 1
    /\ world[1].hexagon # Deployment[1].hexagon
    /\ \A e \in {2, 3} : contains(world, e)

\* entity e of world w carries the PlayerComponent of player cp
OwnedBy(w, e, cp) == contains(w, e) /\ IsSome(cp) /\ w[e].player = cp

\* C31: in every state Moving(u, ..) the unit u belongs to current_player, in
\* every state Attacking(a, d) the attacker a belongs to current_player, and
\* no step, on_new_round included, changes the cell of a unit of a player
\* who is not the current one or takes an attack from it.
C31_OnlyCurrentPlayerActs ==
    /\ [](state.tag \in {"Moving", "Attacking"}
             => OwnedBy(world, state.entity, current_player))
    /\ [][world' # world =>
             \A e \in Units(world) \cap Units(world') :
                (~OwnedBy(world, e, current_player)
                    \/ ~OwnedBy(world', e, current_player'))
                => /\ world'[e].hexagon = world[e].hexagon
                   /\ UnitOf(world', e).remaining_attacks
                         >= UnitOf(world, e).remaining_attacks]_vars

\* unit 1 of player 0 has moved in the first round; after the new round a
\* unit of player 1 is queued to move and unit 1 is where it was left
C31_Witness ==
    /\ rounds = 1
    /\ current_player = Some(1)
    /\ state.tag = "Moving"
    /\ world[state.entity].player = Some(1)
    /\ world[1].hexagon # Deployment[1].hexagon

\* C32: in every state current_path is non-empty only in State::Selected;
\* every step that changes the session state leaves current_path empty, and
\* a step fills current_path only when it starts in State::Selected.
C32_PathOnlyWhileSelected ==
    /\ [](current_path # <<>> => state.tag = "Selected")
    /\ [][/\ state' # state => current_path' = <<>>
          /\ (current_path' # <<>> /\ current_path' # current_path)
                => state.tag = "Selected" /\ state' = state]_vars

\* unit 1 has moved and is selected again, and the hover has drawn a path of
\* two cells from its new cell
C32_Witness ==
    /\ state = Selected(1)
    /\ world[1].hexagon # Deployment[1].hexagon
    /\ Len(current_path) = 2

\* C33: from a deployment in which every unit has remaining_range >= 0 and
\* mobility >= 0, every unit has remaining_range >= 0 in every state.
C33_RangeNeverNegative ==
    \A e \in Units(world) : UnitOf(world, e).remaining_range >= 0

\* unit 1 has left its cell and used up its range with cells of its path
\* still ahead
C33_Witness ==
    /\ state.tag = "Moving" /\ state.entity = 1 /\ state.path # <<>>
    /\ world[1].hexagon # Deployment[1].hexagon
    /\ UnitOf(world, 1).remaining_range = 0

\* this step is a frame that commits the result of the queued attack
AttackCommitted ==
    /\ Leaves(process(GS, SECONDS_PER_MOVEMENT + 1))
    /\ state.tag = "Attacking"
    /\ state.entity \in Units(world) /\ state.defender \in Units(world)

\* C34: a frame that commits an attack leaves the attacker with mobility 0
\* and the remaining_range it had; no step raises the mobility of a unit; a
\* new round moves no unit; and a unit that had mobility 0 when the latest
\* new round began has remaining_range 0 and stands where that round found
\* it.
C34_AttackerStaysPut ==
    /\ [][/\ AttackCommitted =>
                /\ state.entity \in Units(world')
                /\ UnitOf(world', state.entity).mobility = 0
                /\ UnitOf(world', state.entity).remaining_range
                      = UnitOf(world, state.entity).remaining_range
          /\ world' # world =>
                \A e \in Units(world) \cap Units(world') :
                   /\ UnitOf(world', e).mobility <= UnitOf(world, e).mobility
                   /\ NewRoundExecuted => world'[e].hexagon = world[e].hexagon]_vars
    /\ [](\A e \in Units(world) \cap Units(t_world0) :
             UnitOf(t_world0, e).mobility = 0
                => /\ UnitOf(world, e).remaining_range = 0
                   /\ world[e].hexagon = t_world0[e].hexagon)

\* unit 1 has attacked in the first round, its player has the turn again, and
\* the unit is sent along a path
C34_Witness ==
    /\ rounds = 2 /\ current_player = Some(0)
    /\ state.tag = "Moving" /\ state.entity = 1 /\ state.path # <<>>
    /\ UnitOf(world, 1).mobility = 0
    /\ UnitOf(t_world0, 1).mobility = 0

\* C35: after a left click whose closure ran in State::Moving or
\* State::Attacking, and through the frames that follow it, the state is
\* Selected(x) for an entity x at the clicked cell, or Waiting if the cell
\* holds no entity, current_path is empty, and the world is as the click
\* found it: the unit stays where it had got to and the queued attack is
\* not resolved.
C35_ClickReplacesPending ==
    (t_pc \in {"interrupted", "resumed"} /\ t_call.ran) =>
        LET at == get_entities_at_hexagon(t_call.clicked_hexagon, t_world0)
        IN  /\ state = IF at = <<>> THEN Waiting ELSE Selected(at[Len(at)])
            /\ current_path = <<>>
            /\ world = t_world0
            /\ ~poisoned

\* an attack was queued, a click on another unit's cell came before its
\* frame, and a frame has run since
C35_Witness ==
    /\ t_pc = "resumed" /\ t_call.ran /\ ~skipped
    /\ t_call.state.tag = "Attacking"
    /\ state.tag = "Selected"
    /\ state.entity \notin {t_call.state.entity, t_call.state.defender}

\* C36: a frame whose closure runs in State::Waiting or State::Selected,
\* whatever its delta, leaves the state, current_player, current_path and
\* the world (every unit's stats and cell) as they were.
C36_IdleFrameChangesNothing ==
    [][(t_pc = "idle" /\ t_pc' = "framed" /\ ~skipped')
          => /\ state' = state
             /\ current_player' = current_player
             /\ current_path' = current_path
             /\ world' = world
             /\ ~poisoned']_vars

\* the longest frame has run on a selected unit that has moved and has a
\* hover path drawn
C36_Witness ==
    /\ t_pc = "framed" /\ ~skipped
    /\ t_distance = MaxFrame
    /\ state = Selected(1)
    /\ world[1].hexagon # Deployment[1].hexagon
    /\ current_path # <<>>

\* C37: a frame that takes notifications from the channel takes all that it
\* finds, and every entity whose removal notification waits in the channel has its
\* node handle recorded in node_entity, whether or not an access to the
\* session was skipped.
C37_RemovalFindsHandle ==
    /\ [][event_receiver' # event_receiver
             => \A i \in 1..Len(event_receiver') :
                   event_receiver'[i] \notin
                      { event_receiver[j] : j \in 1..Len(event_receiver) }]_vars
    /\ [](\A i \in 1..Len(event_receiver) :
             event_receiver[i] \in node_entity)
    /\ [](~node_panic)

\* C38: hex_clicked with a unit s selected.  A click on a cell that holds a
\* unit c, s itself included: if s has remaining_attacks <= 0 the world is
\* left as it was; otherwise s carries the attacker of the attack's result,
\* and c is deleted if the result's defender has integrity <= 0 and carries
\* that defender if not; either way nothing is selected afterwards.  A click
\* on a cell without unit at distance d: if d <= remaining_range, s stands on
\* the cell with d less remaining_range, otherwise the world and the
\* selection are left as they were.  No other entity changes.
C38_EarlierClick ==
    [][(t_pc' = "hex_clicked" /\ IsSome(selected_entity)
          /\ Get(selected_entity) \in Units(world))
       => LET s == Get(selected_entity)
              h == t_call'.clicked_hexagon
              at == { e \in Units(world) : world[e].hexagon = Some(h) }
          IN  IF at # {}
              THEN \A c \in at :
                      LET result == attack(UnitOf(world, s), UnitOf(world, c))
                      IN  /\ selected_entity' = None
                          /\ \A e \in Entities \ {s, c} :
                                world'[e] = world[e]
                          /\ IF UnitOf(world, s).remaining_attacks <= 0
                             THEN world' = world
                             ELSE /\ s \in Units(world') =>
                                        UnitOf(world', s) = result.attacker
                                  /\ IF result.defender.integrity <= 0
                                     THEN ~world'[c].present
                                     ELSE /\ c \in Units(world')
                                          /\ UnitOf(world', c) = result.defender
              ELSE LET d == distance_to(Get(world[s].hexagon), h)
                   IN  IF d <= UnitOf(world, s).remaining_range
                       THEN world' =
                              [world EXCEPT
                                 ![s].hexagon = Some(h),
                                 ![s].unit =
                                    Some([UnitOf(world, s) EXCEPT
                                            !.remaining_range = @ - d])]
                       ELSE /\ world' = world
                            /\ selected_entity' = selected_entity]_vars

====
